---- MODULE Spec2Model ----
(***************************************************************************)
(* Model of the Worldchain DeFi bot core:                                  *)
(*   - the entity cache of data-manager.js (refresh cycles with retry and  *)
(*     backoff, lookups), specification Spec;                              *)
(*   - the document store and query path of simple-rag.ts together with    *)
(*     protocol-comparer.js, specification SpecRAG.                        *)
(* JavaScript strings are TLA+ strings (Len, \o and SubSeq work on them),  *)
(* other JavaScript values are tagged records.  Numbers are integers.      *)
(***************************************************************************)
EXTENDS Integers, Sequences, FiniteSets, TLC

(***************************************************************************)
(* Bounds of the model                                                     *)
(***************************************************************************)
\* number of calls of refreshProtocolData (startup, timer, /refresh) in a run
MaxCycles == 3
\* length of the candidate list the provider returns
MaxTrending == 2
\* number of calls of initialize() that go past the initialized guard in a run
MaxLoads == 2
\* largest limit passed to findRelevantDocuments
MaxLimit == 2

(***************************************************************************)
(* JavaScript strings                                                      *)
(***************************************************************************)
UpperChars == "ABCDEFGHIJKLMNOPQRSTUVWXYZ"
LowerChars == "abcdefghijklmnopqrstuvwxyz"
DigitChars == "0123456789"
CharAt(s, i) == SubSeq(s, i, i)

\* the set of the characters of chars
CharSet(chars) == { CharAt(chars, i) : i \in 1..Len(chars) }

UpperSet == CharSet(UpperChars)
AlnumSet == CharSet(LowerChars) \cup CharSet(DigitChars)
\* the characters matched by \s that occur in the modelled texts
SpaceSet == CharSet(" \n")

\* the lower-case letter of each upper-case letter
LowerOf == [c \in UpperSet |->
              CharAt(LowerChars, CHOOSE i \in 1..Len(UpperChars) : CharAt(UpperChars, i) = c)]

\* String.prototype.includes
Includes(s, t) == \E i \in 1..(Len(s) - Len(t) + 1) : SubSeq(s, i, i + Len(t) - 1) = t

LowerChar(c) == IF c \in UpperSet THEN LowerOf[c] ELSE c

RECURSIVE ToLowerCase(_)
\* String.prototype.toLowerCase
ToLowerCase(s) ==
  IF Len(s) <= 1 THEN LowerChar(s)
  ELSE ToLowerCase(SubSeq(s, 1, Len(s) \div 2)) \o ToLowerCase(SubSeq(s, Len(s) \div 2 + 1, Len(s)))

IsSpace(c) == c \in SpaceSet

RECURSIVE TrimStart(_)
TrimStart(s) ==
  IF s # "" /\ IsSpace(CharAt(s, 1)) THEN TrimStart(SubSeq(s, 2, Len(s))) ELSE s

RECURSIVE TrimEnd(_)
TrimEnd(s) ==
  IF s # "" /\ IsSpace(CharAt(s, Len(s))) THEN TrimEnd(SubSeq(s, 1, Len(s) - 1)) ELSE s

\* String.prototype.trim
Trim(s) == TrimEnd(TrimStart(s))

RECURSIVE StripNonAlnum(_)
\* s.replace(/[^a-z0-9]/g, '')
StripNonAlnum(s) ==
  IF s = "" THEN ""
  ELSE LET c == CharAt(s, 1)
       IN (IF c \in AlnumSet THEN c ELSE "")
            \o StripNonAlnum(SubSeq(s, 2, Len(s)))

RECURSIVE SplitFrom(_, _, _)
\* scan s; cur is the piece being read, inSep tells that the last character was white space
SplitFrom(s, cur, inSep) ==
  IF s = "" THEN <<cur>>
  ELSE LET c == CharAt(s, 1)
           rest == SubSeq(s, 2, Len(s))
       IN IF IsSpace(c)
            THEN IF inSep THEN SplitFrom(rest, cur, TRUE)
                          ELSE <<cur>> \o SplitFrom(rest, "", TRUE)
            ELSE SplitFrom(rest, cur \o c, FALSE)

\* s.split(/\s+/): "" gives [""], leading or trailing white space gives an empty first or last piece
SplitWs(s) == SplitFrom(s, "", FALSE)

(***************************************************************************)
(* JavaScript values                                                       *)
(***************************************************************************)
Undefined == [t |-> "undefined"]
\* a property that the object does not have (reads as undefined, is left out by JSON.stringify)
Absent    == [t |-> "absent"]
Null      == [t |-> "null"]
NaN       == [t |-> "nan"]
Num(n)    == [t |-> "number", v |-> n]
Str(s)    == [t |-> "string", v |-> s]

TypeOf(x) ==
  CASE x.t \in {"nan", "quotient"} -> "number"
    [] x.t \in {"array", "null"} -> "object"
    [] x.t = "absent"           -> "undefined"
    [] OTHER                    -> x.t

\* ToBoolean
Truthy(x) ==
  CASE x.t = "undefined" -> FALSE
    [] x.t = "absent"    -> FALSE
    [] x.t = "null"      -> FALSE
    [] x.t = "nan"       -> FALSE
    [] x.t = "number"    -> x.v # 0
    [] x.t = "quotient"  -> x.n # 0
    [] x.t = "string"    -> x.v # ""
    [] x.t = "boolean"   -> x.v
    [] OTHER             -> TRUE

\* a || b
OrElse(a, b) == IF Truthy(a) THEN a ELSE b

\* parseFloat of a value that is not a string: the value is converted with String() first, so a
\* number parses to itself, an array to its first element, everything else to NaN
ParseFloat(x) ==
  CASE x.t = "number" -> x
    [] x.t = "array"  -> IF Len(x.v) > 0 THEN Num(x.v[1]) ELSE NaN
    [] OTHER          -> NaN

Max(a, b) == IF a >= b THEN a ELSE b

(***************************************************************************)
(* data-manager.js: configuration and static data                          *)
(***************************************************************************)
MAX_RETRIES == 3
RETRY_DELAY == 5000

\* Object.entries(protocolAliases), in insertion order
protocolAliases ==
  << <<"morpho blue", "morpho">>,
     <<"uniswap v3", "uniswap">>,
     <<"pooltogether v5", "pooltogether">>,
     <<"magnify finance", "magnify">>,
     <<"magnify cash", "magnify">>,
     <<"re7", "re7labs">>,
     <<"dackieswap dex", "dackieswap">> >>

\* the local static dataset (const deFiProtocols of the deployment script), in insertion order
deFiProtocols ==
  << [key |-> "morpho", name |-> "Morpho", tvl |-> "$43.99M", category |-> "Lending",
      description |-> "Lending protocol optimizing liquidity utilization across multiple chains including WorldChain.",
      website |-> "https://morpho.org", launched |-> "2023 on WorldChain", chains |-> "18 chains"],
     [key |-> "re7labs", name |-> "Re7 Labs", tvl |-> "$33.09M", category |-> "Risk Curators",
      description |-> "Risk Curators protocol operating across multiple chains including WorldChain.",
      website |-> "https://re7labs.com", launched |-> "2023 on WorldChain", chains |-> "10 chains"],
     [key |-> "uniswap", name |-> "Uniswap", tvl |-> "$5.15M", category |-> "DEX",
      description |-> "Leading decentralized exchange protocol with presence on WorldChain and many other chains.",
      website |-> "https://uniswap.org", launched |-> "2023 on WorldChain", chains |-> "35 chains"],
     [key |-> "pooltogether", name |-> "PoolTogether", tvl |-> "$458,028", category |-> "Savings",
      description |-> "No-loss savings protocol utilizing prize-linked savings accounts across multiple chains.",
      website |-> "https://pooltogether.com", launched |-> "2023 on WorldChain", chains |-> "8 chains"],
     [key |-> "memewallet", name |-> "Meme Wallet", tvl |-> "$14,583", category |-> "Launchpad",
      description |-> "Launchpad protocol focused on meme tokens on WorldChain.",
      website |-> "https://memewallet.xyz", launched |-> "2024 on WorldChain", chains |-> "1 chain"],
     [key |-> "magnify", name |-> "Magnify Cash", tvl |-> "$9,280", category |-> "Lending",
      description |-> "Lending protocol native to WorldChain with focus on capital efficiency.",
      website |-> "https://magnify.cash", launched |-> "2024 on WorldChain", chains |-> "1 chain"],
     [key |-> "gamma", name |-> "Gamma", tvl |-> "$2,895", category |-> "Liquidity manager",
      description |-> "Liquidity management protocol operating across multiple chains including WorldChain.",
      website |-> "https://gamma.xyz", launched |-> "2023 on WorldChain", chains |-> "36 chains"],
     [key |-> "dackieswap", name |-> "DackieSwap", tvl |-> "$80.26", category |-> "DEX",
      description |-> "Decentralized exchange with multi-chain presence including WorldChain.",
      website |-> "https://dackieswap.xyz", launched |-> "2024 on WorldChain", chains |-> "9 chains"],
     [key |-> "fisclend", name |-> "Fisclend Finance", tvl |-> "$56.05", category |-> "Lending",
      description |-> "Lending protocol with focus on cross-chain functionality.",
      website |-> "https://fisclend.finance", launched |-> "2024 on WorldChain", chains |-> "3 chains"],
     [key |-> "worldle", name |-> "Worldle", tvl |-> "$380", category |-> "Gaming",
      description |-> "Gaming protocol on WorldChain with integration to World ID.",
      website |-> "https://worldle.xyz", launched |-> "2024 on WorldChain", chains |-> "1 chain"],
     [key |-> "humanfi", name |-> "HumanFi", tvl |-> "$61", category |-> "DEX Aggregator",
      description |-> "DEX Aggregator leveraging proof-of-humanity for enhanced functionality.",
      website |-> "https://humanfi.xyz", launched |-> "2024 on WorldChain", chains |-> "1 chain"] >>

\* the names of the properties of module.exports of railway-deploy.js: the script assigns
\* nothing to module.exports, which stays the empty object
RailwayDeployExports == {}

\* require('./railway-deploy').deFiProtocols
localProtocols ==
  IF "deFiProtocols" \in RailwayDeployExports
    THEN [t |-> "object", v |-> deFiProtocols]
    ELSE Undefined

(***************************************************************************)
(* Ordered maps: a JavaScript object with string keys, as the sequence of  *)
(* its entries in insertion order (the order of Object.values)             *)
(***************************************************************************)
EmptyMap == << >>

MapKeys(m) == { m[i].key : i \in 1..Len(m) }

MapHas(m, k) == \E i \in 1..Len(m) : m[i].key = k

MapGet(m, k) == m[CHOOSE i \in 1..Len(m) : m[i].key = k].val

\* m[k] = v: an existing key keeps its position
MapPut(m, k, v) ==
  IF MapHas(m, k)
    THEN [i \in 1..Len(m) |-> IF m[i].key = k THEN [key |-> k, val |-> v] ELSE m[i]]
    ELSE Append(m, [key |-> k, val |-> v])

\* Object.values(m)
MapValues(m) == [i \in 1..Len(m) |-> m[i].val]

\* Array.prototype.find: the first element that satisfies Test, or undefined
Find(seq, Test(_)) ==
  IF \E i \in 1..Len(seq) : Test(seq[i])
    THEN seq[CHOOSE i \in 1..Len(seq) : Test(seq[i]) /\ \A j \in 1..(i - 1) : ~Test(seq[j])]
    ELSE Undefined

(***************************************************************************)
(* data-manager.js: pure functions                                         *)
(***************************************************************************)
RECURSIVE AliasCanonical(_, _)
\* the canonical name of the first alias, from entry i on, that lowerName equals or contains
AliasCanonical(lowerName, i) ==
  IF i > Len(protocolAliases) THEN Undefined
  ELSE IF lowerName = protocolAliases[i][1] \/ Includes(lowerName, protocolAliases[i][1])
    THEN Str(protocolAliases[i][2])
    ELSE AliasCanonical(lowerName, i + 1)

\* normalizeProtocolName without the alias table
normalizeProtocolName_NoAliases(name) ==
  IF ~Truthy(name) THEN "" ELSE StripNonAlnum(Trim(ToLowerCase(name.v)))

\* name is a JavaScript value; the result is a string
normalizeProtocolName(name) ==
  IF ~Truthy(name) THEN ""
  ELSE LET lowerName == Trim(ToLowerCase(name.v))
           canonical == AliasCanonical(lowerName, 1)
       IN IF canonical # Undefined
            THEN StripNonAlnum(ToLowerCase(canonical.v))
            ELSE StripNonAlnum(lowerName)

\* protocol is a record of JavaScript values, now is the value of Date.now()
validateProtocolData(protocol, now) ==
  [protocol EXCEPT
     !.name = OrElse(protocol.name, Str("Unknown Protocol")),
     !.description = OrElse(protocol.description, Str("No description available.")),
     !.category = OrElse(protocol.category, Str("DeFi")),
     !.website = OrElse(protocol.website, Str("https://defillama.com")),
     !.tvl = IF Truthy(protocol.tvl)
               THEN IF TypeOf(protocol.tvl) = "string"
                      THEN protocol.tvl
                      ELSE LET tvlValue == ParseFloat(protocol.tvl)
                           IN IF tvlValue # NaN THEN Num(Max(0, tvlValue.v)) ELSE Num(0)
               ELSE Num(0),
     !.change_1d = IF TypeOf(protocol.change_1d) = "number" THEN protocol.change_1d ELSE Num(0),
     !.change_7d = IF TypeOf(protocol.change_7d) = "number" THEN protocol.change_7d ELSE Num(0),
     !.last_updated = OrElse(protocol.last_updated, Num(now)),
     !.source = OrElse(protocol.source, Str("api"))]

\* findProtocol that tries the word overlap before the substring match
findProtocol_WordsFirst(protocols, name) ==
  IF ~Truthy(name) THEN Null
  ELSE
    LET values == MapValues(protocols)
        normalizedQuery == normalizeProtocolName(name)
        ExactTest(p) == normalizeProtocolName(p.name) = normalizedQuery
        exactMatch == Find(values, ExactTest)
        lowerName == Trim(ToLowerCase(name.v))
        \* the aliases that lowerName equals or contains and whose canonical name is cached
        AliasHit(i) ==
          /\ lowerName = protocolAliases[i][1] \/ Includes(lowerName, protocolAliases[i][1])
          /\ \E j \in 1..Len(values) :
               normalizeProtocolName(values[j].name) = normalizeProtocolName(Str(protocolAliases[i][2]))
        AliasTest(p) ==
          LET i == CHOOSE k \in 1..Len(protocolAliases) :
                     AliasHit(k) /\ \A l \in 1..(k - 1) : ~AliasHit(l)
          IN normalizeProtocolName(p.name) = normalizeProtocolName(Str(protocolAliases[i][2]))
        SubstringTest(p) ==
          \/ Includes(ToLowerCase(p.name.v), lowerName)
          \/ Includes(lowerName, ToLowerCase(p.name.v))
        substringMatch == Find(values, SubstringTest)
        words == SplitWs(lowerName)
        WordTest(p) ==
          LET protocolWords == SplitWs(ToLowerCase(p.name.v))
          IN \E w \in 1..Len(words) :
               /\ Len(words[w]) > 2
               /\ \E q \in 1..Len(protocolWords) :
                    \/ Includes(protocolWords[q], words[w])
                    \/ Includes(words[w], protocolWords[q])
        wordMatch == Find(values, WordTest)
    IN IF exactMatch # Undefined THEN exactMatch
       ELSE IF \E i \in 1..Len(protocolAliases) : AliasHit(i) THEN Find(values, AliasTest)
       ELSE IF wordMatch # Undefined THEN wordMatch
       ELSE IF substringMatch # Undefined THEN substringMatch
       ELSE Null

\* findProtocol against the entity map protocols; name is a JavaScript value, the result an
\* entity record or Null
findProtocol(protocols, name) ==
  IF ~Truthy(name) THEN Null
  ELSE
    LET values == MapValues(protocols)
        normalizedQuery == normalizeProtocolName(name)
        ExactTest(p) == normalizeProtocolName(p.name) = normalizedQuery
        exactMatch == Find(values, ExactTest)
        lowerName == Trim(ToLowerCase(name.v))
        \* the aliases that lowerName equals or contains and whose canonical name is cached
        AliasHit(i) ==
          /\ lowerName = protocolAliases[i][1] \/ Includes(lowerName, protocolAliases[i][1])
          /\ \E j \in 1..Len(values) :
               normalizeProtocolName(values[j].name) = normalizeProtocolName(Str(protocolAliases[i][2]))
        AliasTest(p) ==
          LET i == CHOOSE k \in 1..Len(protocolAliases) :
                     AliasHit(k) /\ \A l \in 1..(k - 1) : ~AliasHit(l)
          IN normalizeProtocolName(p.name) = normalizeProtocolName(Str(protocolAliases[i][2]))
        SubstringTest(p) ==
          \/ Includes(ToLowerCase(p.name.v), lowerName)
          \/ Includes(lowerName, ToLowerCase(p.name.v))
        substringMatch == Find(values, SubstringTest)
        words == SplitWs(lowerName)
        WordTest(p) ==
          LET protocolWords == SplitWs(ToLowerCase(p.name.v))
          IN \E w \in 1..Len(words) :
               /\ Len(words[w]) > 2
               /\ \E q \in 1..Len(protocolWords) :
                    \/ Includes(protocolWords[q], words[w])
                    \/ Includes(words[w], protocolWords[q])
        wordMatch == Find(values, WordTest)
    IN IF exactMatch # Undefined THEN exactMatch
       ELSE IF \E i \in 1..Len(protocolAliases) : AliasHit(i) THEN Find(values, AliasTest)
       ELSE IF substringMatch # Undefined THEN substringMatch
       ELSE IF wordMatch # Undefined THEN wordMatch
       ELSE Null

(***************************************************************************)
(* data-manager.js: the entity provider (defillama-api.js) as seen by the  *)
(* refresh cycle                                                           *)
(***************************************************************************)
\* names of the entries of the provider's protocol list
ApiNames == {"Uniswap V3", "Aave"}

\* an entry of the list returned by getTrendingProtocols
TrendingItem(n) == [name |-> Str(n), category |-> Str("Dexes"), chains |-> Absent]

\* what getTrendingProtocols resolves to: [] when the request fails or nothing is listed,
\* else up to MaxTrending entries without repetition
TrendingLists ==
  { l \in UNION { [1..n -> ApiNames] : n \in 0..MaxTrending } :
      \A i, j \in 1..Len(l) : i # j => l[i] # l[j] }

\* TVL values of a detail record
TvlInputs == {Num(7), Num(-7), Str("-7")}

\* what getProtocolInfo resolves to: null when the request fails or no entry matches, else the
\* detail record, complete or bare
InfoResponses ==
  {Null}
  \cup { [t |-> "object", description |-> Str("A protocol."), tvl |-> v, category |-> Str("Dexes"),
          url |-> Str("https://example.org"), chains |-> Absent,
          change_1d |-> Num(3), change_7d |-> Absent] : v \in TvlInputs }
  \cup { [t |-> "object", description |-> Absent, tvl |-> Absent, category |-> Absent,
          url |-> Absent, chains |-> Absent, change_1d |-> Absent, change_7d |-> Absent] }

\* the object literal passed to validateProtocolData for a fetched entry
ApiRecord(protocol, protocolInfo, now) ==
  [name |-> protocol.name,
   description |-> OrElse(protocolInfo.description,
                          Str(protocol.name.v \o " is a protocol on WorldChain and other chains.")),
   tvl |-> OrElse(protocolInfo.tvl, Num(0)),
   category |-> OrElse(protocolInfo.category, OrElse(protocol.category, Str("DeFi"))),
   website |-> OrElse(protocolInfo.url, Str("https://defillama.com")),
   chains |-> OrElse(protocolInfo.chains, OrElse(protocol.chains, Str("1 chain"))),
   change_1d |-> OrElse(protocolInfo.change_1d, Num(0)),
   change_7d |-> OrElse(protocolInfo.change_7d, Num(0)),
   launched |-> Absent,
   last_updated |-> Num(now),
   source |-> Absent]

\* the object literal passed to validateProtocolData for an entry of the local dataset
LocalRecord(protocol, now) ==
  [name |-> Str(protocol.name),
   description |-> Str(protocol.description),
   tvl |-> Str(protocol.tvl),
   category |-> Str(protocol.category),
   website |-> Str(protocol.website),
   chains |-> OrElse(Str(protocol.chains), Str("1 chain")),
   change_1d |-> Absent,
   change_7d |-> Absent,
   launched |-> Str(protocol.launched),
   last_updated |-> Num(now),
   source |-> Str("local")]

RECURSIVE MergeLocal(_, _, _, _)
\* the loop over Object.entries(localProtocols), from entry i on
MergeLocal(freshProtocols, entries, i, now) ==
  IF i > Len(entries) THEN freshProtocols
  ELSE LET normalizedName == normalizeProtocolName(Str(entries[i].name))
       IN MergeLocal(IF ~MapHas(freshProtocols, normalizedName)
                       THEN MapPut(freshProtocols, normalizedName,
                                   validateProtocolData(LocalRecord(entries[i], now), now))
                       ELSE freshProtocols,
                     entries, i + 1, now)

(***************************************************************************)
(* data-manager.js: state                                                  *)
(***************************************************************************)
VARIABLES
  protocolsCache,  \* the in-memory snapshot (let protocolsCache)
  cacheFile,       \* the content of protocols-cache.json
  cycles,          \* the calls of refreshProtocolData in progress: position, locals, history
  started,         \* number of calls of refreshProtocolData so far; also the reading of Date.now()
  booted,          \* initialize() has been called
  timerArmed,      \* setInterval has been reached
  lookup           \* the lookup answered by the last step, if any: query, result, and whether
                   \* a refresh was in progress

dmVars == <<protocolsCache, cacheFile, cycles, started, booted, timerArmed, lookup>>

\* the initial value of protocolsCache
ColdCache ==
  [timestamp |-> 0, protocols |-> EmptyMap, version |-> 1,
   lastRefreshAttempt |-> 0, refreshSuccess |-> FALSE]

\* a snapshot left in protocols-cache.json by an earlier run: one fetched and one local entity
SavedSnapshot ==
  [timestamp |-> 0,
   protocols |->
     MapPut(MapPut(EmptyMap, "uniswap",
                   validateProtocolData(
                     ApiRecord(TrendingItem("Uniswap V3"),
                               [t |-> "object", description |-> Absent, tvl |-> Num(7),
                                category |-> Absent, url |-> Absent, chains |-> Absent,
                                change_1d |-> Num(3), change_7d |-> Absent], 0), 0)),
            "gamma", validateProtocolData(LocalRecord(deFiProtocols[7], 0), 0)),
   version |-> 4,
   lastRefreshAttempt |-> 0,
   refreshSuccess |-> TRUE]

\* the snapshots an earlier run may have left
SavedSnapshots == {SavedSnapshot}

\* JSON.stringify of one value: a property whose value is undefined is left out, NaN is
\* written as null
JsonValue(x) ==
  IF x \in {Undefined, Absent} THEN Absent ELSE IF x = NaN THEN Null ELSE x

\* JSON.stringify(protocolsCache, null, 2): the document, as the tree of its values
JSONStringify(cache) ==
  [t |-> "json",
   v |-> [timestamp |-> cache.timestamp,
          protocols |-> [i \in 1..Len(cache.protocols) |->
                           [key |-> cache.protocols[i].key,
                            val |-> [f \in DOMAIN cache.protocols[i].val |->
                                       JsonValue(cache.protocols[i].val[f])]]],
          version |-> cache.version,
          lastRefreshAttempt |-> cache.lastRefreshAttempt,
          refreshSuccess |-> cache.refreshSuccess]]

\* JSON.parse of the content of the file: the object the document describes
JSONParse(cacheData) == cacheData.v

\* saveCache that writes the entity map alone
saveCache_ProtocolsOnly(cache, file, writeOk) ==
  IF writeOk THEN JSONStringify([cache EXCEPT !.version = 1]) ELSE file

\* saveCache: the snapshot is written to the file unless the write fails
saveCache(cache, file, writeOk) == IF writeOk THEN JSONStringify(cache) ELSE file

\* protocols-cache.json at startup: missing, or what saveCache wrote in an earlier run
CacheFiles ==
  {[t |-> "none"]} \cup { saveCache(snapshot, [t |-> "none"], TRUE) : snapshot \in SavedSnapshots }

\* the callers of refreshProtocolData; the model follows one call of each at a time (the call
\* of initialize() is the only one of its kind, and the calls of the timer callback and of the
\* /refresh handler overlap with each other)
Cycles == {"init", "timer", "manual"}

\* a call of refreshProtocolData that has not been made yet
IdleCycle ==
  [pc |-> "idle", attempt |-> 0, trending |-> << >>, i |-> 0,
   freshProtocols |-> EmptyMap, delay |-> 0, result |-> "none",
   \* history: the snapshot in place when the cycle started, whether every attempt so far got
   \* an empty list, the keys fetched by the last attempt
   before |-> [protocols |-> EmptyMap, version |-> 1], emptyOnly |-> TRUE, fetched |-> {}]

NoLookup == [query |-> Null, result |-> Null, busy |-> FALSE]

\* names asked for by the chat commands
LookupNames ==
  {"MORPHO", "morpho", "Morpho Blue", "Gamma", "", "uniswap finance", "gamma v3 uniswap",
   "morpho blue uniswap v3"}

InFlight(c) == cycles[c].pc \in {"trending", "info", "backoff"}

\* a call has returned and its caller's continuation is the next job to run
Returning == \E c \in Cycles : cycles[c].pc = "done"

(***************************************************************************)
(* data-manager.js: refreshProtocolData                                    *)
(***************************************************************************)
\* a wait that does not grow from one retry to the next
Pow2_NoDoubling(n) == 1

RECURSIVE Pow2(_)
Pow2(n) == IF n = 0 THEN 1 ELSE 2 * Pow2(n - 1)

\* CatchAttempt without the assignment protocolsCache.refreshSuccess = false
CatchAttempt_KeepsSuccessFlag(cy, cache) ==
  IF cy.attempt < MAX_RETRIES
    THEN [cycle |-> [cy EXCEPT !.pc = "backoff",
                               !.delay = RETRY_DELAY * Pow2(cy.attempt - 1),
                               !.trending = << >>, !.i = 0, !.freshProtocols = EmptyMap],
          cache |-> cache]
    ELSE [cycle |-> [cy EXCEPT !.pc = "done", !.result = "false",
                               !.trending = << >>, !.i = 0, !.freshProtocols = EmptyMap],
          cache |-> cache]

\* the catch block of an attempt: cy is the cycle record, cache the snapshot; the result is
\* the pair of both after the block
CatchAttempt(cy, cache) ==
  IF cy.attempt < MAX_RETRIES
    THEN [cycle |-> [cy EXCEPT !.pc = "backoff",
                               !.delay = RETRY_DELAY * Pow2(cy.attempt - 1),
                               !.trending = << >>, !.i = 0, !.freshProtocols = EmptyMap],
          cache |-> cache]
    ELSE [cycle |-> [cy EXCEPT !.pc = "done", !.result = "false",
                               !.trending = << >>, !.i = 0, !.freshProtocols = EmptyMap],
          cache |-> [cache EXCEPT !.refreshSuccess = FALSE]]

\* the end of an attempt after the last detail record: merge of the local dataset, swap of the
\* snapshot, save, return true; Object.entries(localProtocols) raises a TypeError when
\* localProtocols is undefined, which ends the attempt in its catch block.  The result is the set
\* of possible outcomes (the write of the file succeeds or fails)
FinishAttempt(cy, cache, file, freshProtocols, now) ==
  IF localProtocols = Undefined
    THEN LET r == CatchAttempt(cy, cache)
         IN {[cycle |-> [r.cycle EXCEPT !.fetched = IF r.cycle.pc = "done"
                                                      THEN MapKeys(freshProtocols) ELSE {}],
              cache |-> r.cache, file |-> file]}
    ELSE LET merged == MergeLocal(freshProtocols, localProtocols.v, 1, now)
             newCache == [timestamp |-> now, protocols |-> merged,
                          version |-> cache.version + 1,
                          lastRefreshAttempt |-> now, refreshSuccess |-> TRUE]
         IN {[cycle |-> [cy EXCEPT !.pc = "done", !.result = "true",
                                   !.fetched = MapKeys(freshProtocols),
                                   !.trending = << >>, !.i = 0, !.freshProtocols = EmptyMap],
              cache |-> newCache,
              file |-> saveCache(newCache, file, writeOk)] : writeOk \in BOOLEAN}

\* the call refreshProtocolData() up to its first await
StartCycle(who, cache) ==
  /\ started < MaxCycles
  /\ ~Returning
  /\ cycles[who].pc = "idle"
  /\ cycles' = [cycles EXCEPT ![who] =
                  [IdleCycle EXCEPT !.pc = "trending", !.attempt = 1,
                                    !.before = [protocols |-> cache.protocols,
                                                version |-> cache.version]]]
  /\ started' = started + 1
  /\ protocolsCache' = [cache EXCEPT !.lastRefreshAttempt = started + 1]

\* initialize(): load the cache file, then call refreshProtocolData
Initialize ==
  /\ ~booted
  /\ booted' = TRUE
  /\ StartCycle("init", IF cacheFile.t = "json" THEN JSONParse(cacheFile) ELSE protocolsCache)
  /\ lookup' = NoLookup
  /\ UNCHANGED <<cacheFile, timerArmed>>

\* the setInterval callback
TimerFire ==
  /\ timerArmed
  /\ StartCycle("timer", protocolsCache)
  /\ lookup' = NoLookup
  /\ UNCHANGED <<cacheFile, booted, timerArmed>>

\* the /refresh command; the commands are registered once initialize() has returned
ManualRefresh(chatType) ==
  /\ timerArmed
  /\ chatType = "private"
  /\ StartCycle("manual", protocolsCache)
  /\ lookup' = NoLookup
  /\ UNCHANGED <<cacheFile, booted, timerArmed>>

RECURSIVE PutAll(_, _, _)
\* the entries of fresh, from entry i on, assigned into m
PutAll(m, fresh, i) ==
  IF i > Len(fresh) THEN m ELSE PutAll(MapPut(m, fresh[i].key, fresh[i].val), fresh, i + 1)

\* Continue for a refresh that stores each fetched record straight into protocolsCache.protocols
Continue_InPlace(c, r) ==
  /\ cycles' = [cycles EXCEPT ![c] = r.cycle]
  /\ protocolsCache' = [r.cache EXCEPT !.protocols = PutAll(@, r.cycle.freshProtocols, 1)]

\* the cycle c goes on or ends as r says
Continue(c, r) ==
  /\ cycles' = [cycles EXCEPT ![c] = r.cycle]
  /\ protocolsCache' = r.cache

\* the call c has returned: its caller goes on (initialize() reaches setInterval, the timer
\* callback ends, the /refresh handler replies); this continuation runs before any other event
Return(c) ==
  /\ cycles[c].pc = "done"
  /\ cycles' = [cycles EXCEPT ![c] = IdleCycle]
  /\ timerArmed' = (timerArmed \/ c = "init")
  /\ lookup' = NoLookup
  /\ UNCHANGED <<protocolsCache, cacheFile, started, booted>>

\* await defiLlama.getTrendingProtocols() resolves to list
TrendingResponse(c, list) ==
  /\ cycles[c].pc = "trending"
  /\ ~Returning
  /\ LET cy == cycles[c]
         trendingProtocols == [k \in 1..Len(list) |-> TrendingItem(list[k])]
     IN IF Len(trendingProtocols) = 0
          THEN Continue(c, CatchAttempt(cy, protocolsCache))
          ELSE Continue(c, [cycle |-> [cy EXCEPT !.pc = "info", !.trending = trendingProtocols,
                                                 !.i = 1, !.freshProtocols = EmptyMap,
                                                 !.emptyOnly = FALSE],
                            cache |-> protocolsCache])
  /\ lookup' = NoLookup
  /\ UNCHANGED <<cacheFile, started, booted, timerArmed>>

\* await defiLlama.getProtocolInfo(protocol.name) resolves to protocolInfo for the i-th entry
InfoResponse(c, protocolInfo) ==
  /\ cycles[c].pc = "info"
  /\ ~Returning
  /\ LET cy == cycles[c]
         protocol == cy.trending[cy.i]
         freshProtocols ==
           IF protocolInfo # Null
             THEN MapPut(cy.freshProtocols, normalizeProtocolName(protocol.name),
                         validateProtocolData(ApiRecord(protocol, protocolInfo, started), started))
             ELSE cy.freshProtocols
     IN IF cy.i < Len(cy.trending)
          THEN /\ Continue(c, [cycle |-> [cy EXCEPT !.i = @ + 1, !.freshProtocols = freshProtocols],
                               cache |-> protocolsCache])
               /\ UNCHANGED cacheFile
          ELSE \E r \in FinishAttempt(cy, protocolsCache, cacheFile, freshProtocols, started) :
                 /\ Continue(c, r)
                 /\ cacheFile' = r.file
  /\ lookup' = NoLookup
  /\ UNCHANGED <<started, booted, timerArmed>>

\* a backoff wait after which the same attempt is made again
BackoffElapsed_SameAttempt(c) ==
  /\ cycles[c].pc = "backoff"
  /\ ~Returning
  /\ cycles' = [cycles EXCEPT ![c] = [@ EXCEPT !.pc = "trending", !.delay = 0]]
  /\ lookup' = NoLookup
  /\ UNCHANGED <<protocolsCache, cacheFile, started, booted, timerArmed>>

\* the backoff wait of a failed attempt is over: the next attempt starts
BackoffElapsed(c) ==
  /\ cycles[c].pc = "backoff"
  /\ ~Returning
  /\ cycles' = [cycles EXCEPT ![c] = [@ EXCEPT !.pc = "trending", !.attempt = @ + 1, !.delay = 0]]
  /\ lookup' = NoLookup
  /\ UNCHANGED <<protocolsCache, cacheFile, started, booted, timerArmed>>

\* a chat command looks an entity up; a lookup changes nothing of the program's state, so that
\* a lookup that follows another at once reaches nothing new and is left out
Lookup(name) ==
  /\ timerArmed
  /\ ~Returning
  /\ lookup = NoLookup
  /\ lookup' = [query |-> Str(name),
                result |-> findProtocol(protocolsCache.protocols, Str(name)),
                busy |-> \E c \in Cycles : InFlight(c)]
  /\ UNCHANGED <<protocolsCache, cacheFile, cycles, started, booted, timerArmed>>

(***************************************************************************)
(* simple-rag.ts, protocol-comparer.js: strings and numbers                *)
(***************************************************************************)
RECURSIVE Join(_, _)
\* Array.prototype.join of an array of strings
Join(lines, sep) ==
  IF Len(lines) = 0 THEN ""
  ELSE IF Len(lines) = 1 THEN lines[1]
  ELSE lines[1] \o sep \o Join(Tail(lines), sep)

\* the least position from i on at which t occurs in s, 0 if there is none
IndexFrom(s, t, i) ==
  LET hits == { j \in i..(Len(s) - Len(t) + 1) : SubSeq(s, j, j + Len(t) - 1) = t }
  IN IF hits = {} THEN 0 ELSE CHOOSE j \in hits : \A k \in hits : j <= k

RECURSIVE SplitOn(_, _)
\* String.prototype.split with a non-empty string separator
SplitOn(s, sep) ==
  LET j == IndexFrom(s, sep, 1)
  IN IF j = 0 THEN <<s>>
     ELSE <<SubSeq(s, 1, j - 1)>> \o SplitOn(SubSeq(s, j + Len(sep), Len(s)), sep)

\* String.prototype.endsWith
EndsWith(s, t) == Len(s) >= Len(t) /\ SubSeq(s, Len(s) - Len(t) + 1, Len(s)) = t

\* the length of the longest run of characters of class that starts at position i of s
RunLength(s, i, class) ==
  LET stops == { j \in i..Len(s) : CharAt(s, j) \notin class }
  IN IF stops = {} THEN Max(0, Len(s) - i + 1)
     ELSE (CHOOSE j \in stops : \A k \in stops : j <= k) - i

\* the character at position i of s, "" beyond its end
CharOr(s, i) == IF i \in 1..Len(s) THEN CharAt(s, i) ELSE ""

RECURSIVE NatToString(_)
\* Number.prototype.toString of a natural number
NatToString(n) ==
  IF n < 10 THEN CharAt(DigitChars, n + 1)
  ELSE NatToString(n \div 10) \o CharAt(DigitChars, (n % 10) + 1)

\* Number.prototype.toString of an integer
NumberToString(n) == IF n < 0 THEN "-" \o NatToString(-n) ELSE NatToString(n)

RECURSIVE GroupDigits(_)
\* the digits of a natural number in groups of three
GroupDigits(n) ==
  IF n < 1000 THEN NatToString(n)
  ELSE LET low == n % 1000
       IN GroupDigits(n \div 1000) \o ","
            \o (IF low < 10 THEN "00" ELSE IF low < 100 THEN "0" ELSE "") \o NatToString(low)

\* x.toLocaleString() in the default (en-US) locale: a number is grouped, a string is itself
ToLocaleString(x) ==
  IF x.t = "number"
    THEN IF x.v < 0 THEN "-" \o GroupDigits(-x.v) ELSE GroupDigits(x.v)
    ELSE x.v

\* the value of ${x} in a template literal
Interpolate(x) ==
  CASE x.t = "string"    -> x.v
    [] x.t = "number"    -> NumberToString(x.v)
    [] x.t = "null"      -> "null"
    [] x.t = "nan"       -> "NaN"
    [] x.t = "boolean"   -> IF x.v THEN "true" ELSE "false"
    [] OTHER             -> "undefined"

RECURSIVE DigitsValue(_)
\* the number written by a string of digits
DigitsValue(s) ==
  IF s = "" THEN 0
  ELSE 10 * DigitsValue(SubSeq(s, 1, Len(s) - 1))
         + ((CHOOSE d \in 1..10 : CharAt(DigitChars, d) = CharAt(s, Len(s))) - 1)

RECURSIVE Pow10(_)
Pow10(n) == IF n = 0 THEN 1 ELSE 10 * Pow10(n - 1)

RECURSIVE Without(_, _)
\* s.replace(/c/g, '') for a character c
Without(s, c) ==
  IF s = "" THEN ""
  ELSE (IF CharAt(s, 1) = c THEN "" ELSE CharAt(s, 1)) \o Without(SubSeq(s, 2, Len(s)), c)

DigitSet == CharSet(DigitChars)

\* extractNumericValue: the first match of /\$?([\d,]+\.?\d*)([KMB])?/i in value, as a number;
\* a quotient that is no integer is cut to one
extractNumericValue(value) ==
  LET starts == { i \in 1..Len(value) : CharAt(value, i) \in DigitSet \cup {","} }
  IN IF starts = {} THEN Num(0)
     ELSE LET i == CHOOSE j \in starts : \A k \in starts : j <= k
              whole == RunLength(value, i, DigitSet \cup {","})
              dot == IF CharOr(value, i + whole) = "." THEN 1 ELSE 0
              frac == IF dot = 1 THEN RunLength(value, i + whole + 1, DigitSet) ELSE 0
              digits == Without(SubSeq(value, i, i + whole - 1), ",")
              suffix == ToLowerCase(CharOr(value, i + whole + dot + frac))
              multiplier == CASE suffix = "k" -> 1000
                              [] suffix = "m" -> 1000000
                              [] suffix = "b" -> 1000000000
                              [] OTHER -> 1
          IN IF digits = "" /\ frac = 0 THEN NaN
             ELSE Num(((DigitsValue(digits) * Pow10(frac)
                          + (IF frac = 0 THEN 0
                             ELSE DigitsValue(SubSeq(value, i + whole + 1, i + whole + frac))))
                       * multiplier) \div Pow10(frac))

\* (num / unit).toFixed(1)
ToFixed1(num, unit) ==
  LET tenths == (num * 10 + unit \div 2) \div unit
  IN NatToString(tenths \div 10) \o "." \o NatToString(tenths % 10)

\* formatNumber
formatNumber(num) ==
  IF num >= 1000000000 THEN ToFixed1(num, 1000000000) \o "B"
  ELSE IF num >= 1000000 THEN ToFixed1(num, 1000000) \o "M"
  ELSE IF num >= 1000 THEN ToFixed1(num, 1000) \o "K"
  ELSE NumberToString(num)

\* Array.prototype.sort with a comparator that orders by a key, largest first: before[i][j] tells
\* that the comparator puts element i before element j; elements that it does not separate
\* keep their order (the sort is stable).  The result lists the positions 1..n in sorted order
SortedOrder(n, before) ==
  LET place == << >> \o [i \in 1..n |->
                  Cardinality({ j \in 1..n :
                                  \/ before[j][i]
                                  \/ ~before[i][j] /\ j < i }) + 1]
  IN [p \in 1..n |-> CHOOSE i \in 1..n : place[i] = p]

(***************************************************************************)
(* simple-rag.ts: the static artifacts and their chunks                    *)
(***************************************************************************)
\* a DocumentChunk: content and source are strings, protocol and category are strings or
\* missing, score is missing until a query assigns one.  The field id is not in the code: it
\* numbers the chunk objects in the order in which they were pushed to the store
Chunk(content, source, protocol, category) ==
  [content |-> content, source |-> source, protocol |-> protocol, category |-> category,
   score |-> Absent, id |-> 0]

\* a statement that pushes chunk, or one that raises an exception
Pushes(chunk) == [ok |-> TRUE, chunk |-> chunk]
Throws == [ok |-> FALSE, chunk |-> Null]

\* the chunks pushed by a sequence of statements that ends at its first exception
Outcome(statements) ==
  LET bad == { i \in 1..Len(statements) : ~statements[i].ok }
      last == IF bad = {} THEN Len(statements)
              ELSE (CHOOSE i \in bad : \A j \in bad : i <= j) - 1
  IN [pushed |-> [i \in 1..last |-> statements[i].chunk], threw |-> bad # {}]

\* the elements of seq at the positions in keep, in their order
Pick(seq, keep) ==
  LET upTo[i \in 0..Len(seq)] ==
        IF i = 0 THEN << >>
        ELSE IF i \in keep THEN Append(upTo[i - 1], seq[i]) ELSE upTo[i - 1]
  IN upTo[Len(seq)]

\* obj[key] of a parsed JSON object
Prop(obj, key) == IF MapHas(obj, key) THEN MapGet(obj, key) ELSE Absent

\* x !== undefined
Defined(x) == x.t \notin {"absent", "undefined"}

\* one element or none
When(cond, line) == IF cond THEN <<line>> ELSE << >>

\* processProtocolStats; stats is a parsed JSON object or null
processProtocolStats(stats, filename) ==
  IF stats = Null THEN Outcome(<<Throws>>)
  ELSE
    LET name == Interpolate(OrElse(Prop(stats, "App Name"),
                                   Str(IF EndsWith(filename, ".json")
                                         THEN SubSeq(filename, 1, Len(filename) - 5)
                                         ELSE filename)))
        protocolName == OrElse(Prop(stats, "App Name"), Str(name))
        Has(key) == Truthy(Prop(stats, key))
        Local(key) == ToLocaleString(Prop(stats, key))
        usageMetrics ==
          When(Has("Impressions"), Local("Impressions") \o " impressions")
          \o When(Defined(Prop(stats, "Impression Growth (%)")),
                  Interpolate(Prop(stats, "Impression Growth (%)")) \o "% impression growth")
          \o When(Has("Sessions"), Local("Sessions") \o " sessions")
        userMetrics ==
          When(Has("Users"), Local("Users") \o " total users")
          \o When(Has("Unique Users"), Local("Unique Users") \o " unique users")
          \o When(Has("Verifications"), Local("Verifications") \o " verifications")
        financialMetrics ==
          When(Has("Total TVL (USD)"), "$" \o Local("Total TVL (USD)") \o " in Total Value Locked")
          \o When(Has("Loans Issued"), Local("Loans Issued") \o " loans issued")
          \o When(Has("Total USDC Repaid"), "$" \o Local("Total USDC Repaid") \o " in USDC repaid")
        others == Pick(stats, { i \in 1..Len(stats) : stats[i].key \notin
                   {"App Name", "Global Ranking", "Total Apps Ranked", "Impressions",
                    "Impression Growth (%)", "Sessions", "Users", "Unique Users",
                    "Verifications", "Total TVL (USD)", "Loans Issued",
                    "Total USDC Repaid", "Total NFT Mints"} })
        otherMetrics ==
          When(Has("Total NFT Mints"), Local("Total NFT Mints") \o " NFT mints")
          \o [i \in 1..Len(others) |-> others[i].key \o ": " \o Interpolate(others[i].val)]
        sections ==
          <<"# " \o name \o " - Detailed Statistics">>
          \o When(Defined(Prop(stats, "Global Ranking")) /\ Defined(Prop(stats, "Total Apps Ranked")),
                  name \o " ranks #" \o Interpolate(Prop(stats, "Global Ranking")) \o " out of "
                    \o Interpolate(Prop(stats, "Total Apps Ranked")) \o " apps on Worldchain.")
          \o When(Len(usageMetrics) > 0,
                  "## Usage Metrics\n" \o name \o " has generated " \o Join(usageMetrics, ", ") \o ".")
          \o When(Len(userMetrics) > 0,
                  "## User Base\n" \o name \o " has " \o Join(userMetrics, " and ") \o ".")
          \o When(Len(financialMetrics) > 0,
                  "## Financial Activity\n" \o name \o " has " \o Join(financialMetrics, " and ") \o ".")
          \o When(Len(otherMetrics) > 0, "## Other Metrics\n" \o Join(otherMetrics, "\n"))
        summary ==
          Join(<<name \o " is a Worldchain protocol with "
                   \o (IF Has("Users") THEN Local("Users") \o " users" ELSE "a growing user base")
                   \o ".">>
               \o When(Has("Global Ranking"),
                       "It ranks #" \o Interpolate(Prop(stats, "Global Ranking"))
                         \o " among Worldchain apps.")
               \o When(Has("Total TVL (USD)"),
                       "It has $" \o Local("Total TVL (USD)") \o " in Total Value Locked.")
               \o When(Has("Loans Issued"),
                       "The protocol has issued " \o Local("Loans Issued") \o " loans."),
               " ")
    IN Outcome(<<Pushes(Chunk(Join(sections, "\n\n"), "worldchain_protocol_stats/" \o filename,
                              protocolName, Str("Detailed Stats"))),
                 Pushes(Chunk(summary, "worldchain_protocol_stats/" \o filename,
                              protocolName, Str("Summary")))>>)

\* the keys of the categoryGroups object built from records: the categories in the order of
\* their first record
CategoryKeys(records) ==
  LET keys == [i \in 1..Len(records) |-> Interpolate(records[i].Category)]
  IN Pick(keys, { i \in 1..Len(keys) : \A j \in 1..(i - 1) : keys[j] # keys[i] })

\* processWorldchainProtocols; protocols is a parsed JSON array of records
processWorldchainProtocols(protocols) ==
  LET n == Len(protocols)
      HasTvl(p) == p.TVL.t = "string"
      tvl == [i \in 1..n |-> IF HasTvl(protocols[i])
                               THEN extractNumericValue(protocols[i].TVL.v) ELSE NaN]
      Larger(a, b) == a # NaN /\ b # NaN /\ a.v > b.v
      \* formatNumber of the sum of the TVL of members
      Total(members) ==
        LET upTo[i \in 0..Len(members)] ==
              IF i = 0 THEN 0 ELSE upTo[i - 1] + tvl[members[i]].v
        IN IF \E i \in 1..Len(members) : tvl[members[i]] = NaN
             THEN "NaN" ELSE formatNumber(upTo[Len(members)])
      \* positions of the records, sorted by TVL, largest first
      SortByTvl(members) ==
        LET order == SortedOrder(Len(members),
                                 [i \in 1..Len(members) |-> [j \in 1..Len(members) |->
                                    Larger(tvl[members[i]], tvl[members[j]])]])
        IN [p \in 1..Len(members) |-> members[order[p]]]
      all == [i \in 1..n |-> i]
      sortedProtocols == SortByTvl(all)
      RankingRow(index, protocol) ==
        "| " \o NatToString(index) \o " | " \o Interpolate(protocol.Name)
          \o " | " \o Interpolate(protocol.Category)
          \o " | " \o Interpolate(protocol.TVL)
          \o " | " \o Interpolate(protocol.Change1d)
          \o " | " \o Interpolate(OrElse(protocol.Revenue24h, Str("N/A"))) \o " |"
      rankingContent ==
        Join(<<"# Worldchain Protocol Rankings by TVL",
               "",
               "Current Total Value Locked (TVL) rankings for protocols on Worldchain:",
               "",
               "| Rank | Protocol | Category | TVL | 24h Change | 24h Revenue |",
               "| ---- | -------- | -------- | --- | ---------- | ----------- |">>
             \o [index \in 1..n |-> RankingRow(index, protocols[sortedProtocols[index]])],
             "\n")
      Individual(protocol) ==
        IF protocol.Category.t # "string" THEN Throws
        ELSE Pushes(Chunk(
               \* filter(Boolean) drops the empty lines of the array
               Join(<<"# " \o Interpolate(protocol.Name),
                      Interpolate(protocol.Name) \o " is a " \o ToLowerCase(protocol.Category.v)
                        \o " protocol on Worldchain.",
                      "Current TVL: " \o Interpolate(protocol.TVL),
                      "24h Change: " \o Interpolate(protocol.Change1d)>>
                    \o When(Truthy(protocol.Revenue24h),
                            "24h Revenue: " \o Interpolate(protocol.Revenue24h))
                    \o When(Truthy(protocol.Volume24h),
                            "24h Volume: " \o Interpolate(protocol.Volume24h))
                    \o When(Truthy(protocol.FeesVol),
                            "Fees/Volume Ratio: " \o Interpolate(protocol.FeesVol)),
                    "\n"),
               "worldchain_protocols.json", protocol.Name, protocol.Category))
      categoryNames == CategoryKeys(protocols)
      Members(category) ==
        Pick(all, { i \in 1..n : Interpolate(protocols[i].Category) = category })
      Overview(category, sortedCategoryProtocols) ==
        LET shown == SubSeq(sortedCategoryProtocols, 1,
                            IF Len(sortedCategoryProtocols) < 5
                              THEN Len(sortedCategoryProtocols) ELSE 5)
        IN IF \E i \in 1..Len(sortedCategoryProtocols) :
                ~HasTvl(protocols[sortedCategoryProtocols[i]])
             THEN Throws
             ELSE Pushes(Chunk(
                    Join(<<"# " \o category \o " Protocols on Worldchain",
                           "",
                           "There are " \o NatToString(Len(sortedCategoryProtocols)) \o " "
                             \o ToLowerCase(category)
                             \o " protocols on Worldchain with a combined TVL of $"
                             \o Total(sortedCategoryProtocols) \o ".",
                           "",
                           "The top protocols in this category are:">>
                         \o [index \in 1..Len(shown) |->
                               NatToString(index) \o ". "
                                 \o Interpolate(protocols[shown[index]].Name)
                                 \o " (TVL: " \o Interpolate(protocols[shown[index]].TVL) \o ")"],
                         "\n"),
                    "worldchain_protocols.json", Str("Worldchain"), Str(category)))
      sizes == [g \in 1..Len(categoryNames) |-> Len(Members(categoryNames[g]))]
      largest == SortedOrder(Len(categoryNames),
                             [g \in 1..Len(categoryNames) |-> [h \in 1..Len(categoryNames) |->
                                sizes[g] > sizes[h]]])
      tvlSummary ==
        IF n = 0 \/ \E i \in 1..n : ~HasTvl(protocols[i]) THEN Throws
        ELSE Pushes(Chunk(
               Join(<<"# Worldchain DeFi Ecosystem Overview",
                      "",
                      "The Worldchain DeFi ecosystem currently has " \o NatToString(n)
                        \o " protocols with a total TVL of $" \o Total(all) \o ".",
                      "",
                      "Key statistics:",
                      "- Top protocol by TVL: " \o Interpolate(protocols[sortedProtocols[1]].Name)
                        \o " (" \o Interpolate(protocols[sortedProtocols[1]].TVL) \o ")",
                      "- Number of categories: " \o NatToString(Len(categoryNames)),
                      "- Most populous category: " \o categoryNames[largest[1]]
                        \o " (" \o NatToString(sizes[largest[1]]) \o " protocols)">>,
                    "\n"),
               "worldchain_protocols.json", Str("Worldchain"), Str("Summary")))
  IN IF n >= 2 /\ \E i \in 1..n : ~HasTvl(protocols[i])
       THEN Outcome(<<Throws>>)
       ELSE Outcome(<<Pushes(Chunk(rankingContent, "worldchain_protocols.json",
                                   Str("Worldchain"), Str("Rankings")))>>
                    \o [i \in 1..n |-> Individual(protocols[i])]
                    \o [g \in 1..Len(categoryNames) |->
                          Overview(categoryNames[g], SortByTvl(Members(categoryNames[g])))]
                    \o <<tvlSummary>>)

(***************************************************************************)
(* protocol-comparer.js                                                    *)
(***************************************************************************)
comparisonKeywords ==
  <<"compare", "comparison", "versus", "vs", "vs.", "difference",
    "better", "worse", "best", "worst", "between", "which">>

\* the protocol fields of the chunks that have one other than 'Worldchain', in store order
KnownProtocolNames(documents) ==
  LET named == Pick(documents, { i \in 1..Len(documents) :
                                   /\ Truthy(documents[i].protocol)
                                   /\ documents[i].protocol # Str("Worldchain") })
  IN [i \in 1..Len(named) |-> named[i].protocol.v]

extractProtocolsForComparison(query, documents) ==
  LET names == KnownProtocolNames(documents)
      uniqueProtocolNames ==
        Pick(names, { i \in 1..Len(names) : \A j \in 1..(i - 1) : names[j] # names[i] })
      queryLower == ToLowerCase(query)
  IN Pick(uniqueProtocolNames,
          { i \in 1..Len(uniqueProtocolNames) :
              Includes(queryLower, ToLowerCase(uniqueProtocolNames[i])) })

isComparisonQuery(query, documents) ==
  LET queryLower == ToLowerCase(query)
      hasComparisonKeyword ==
        \E k \in 1..Len(comparisonKeywords) : Includes(queryLower, comparisonKeywords[k])
      hasMultipleProtocols == Len(extractProtocolsForComparison(query, documents)) >= 2
  IN hasComparisonKeyword /\ hasMultipleProtocols

getProtocolCategory(documents) ==
  LET found == { i \in 1..Len(documents) : Truthy(documents[i].category) }
  IN IF found = {} THEN "Unknown"
     ELSE documents[CHOOSE i \in found : \A j \in found : i <= j].category.v

\* the positions of content at which word starts, whatever the case of the letters
Occurrences(content, word) ==
  { i \in 1..(Len(content) - Len(word) + 1) :
      /\ LowerChar(CharAt(content, i)) = CharAt(word, 1)
      /\ ToLowerCase(SubSeq(content, i, i + Len(word) - 1)) = word }

\* the first of the captures (a function over positions) that is not Null, or Null
FirstCapture(captures) ==
  LET hits == { i \in DOMAIN captures : captures[i] # Null }
  IN IF hits = {} THEN Null ELSE captures[CHOOSE i \in hits : \A j \in hits : i <= j]

\* match[1], or none where there is no match
CaptureOr(match, none) == IF match = Null THEN none ELSE match.v

\* the group of \$(\d[\d,.]+[KMB]?) when the '$' stands at position d - 1 of content and run
\* characters of the class [\d,.] follow the digit at d, or Null
TvlGroup(content, d, run) ==
  IF CharOr(content, d - 1) = "$" /\ CharOr(content, d) \in DigitSet /\ run >= 1
    THEN Str(SubSeq(content, d,
                    d + run + IF ToLowerCase(CharOr(content, d + 1 + run)) \in {"k", "m", "b"}
                                THEN 1 ELSE 0))
    ELSE Null

\* the same when the word ends at position a - 1 and gap characters of [:\s] follow it
TvlAfter(content, a, gap) ==
  IF gap >= 1
    THEN TvlGroup(content, a + gap + 1,
                  RunLength(content, a + gap + 2, DigitSet \cup {",", "."}))
    ELSE Null

\* the group captured by the first match in content of /<word>[:\s]+\$(\d[\d,.]+[KMB]?)/i, or
\* Null: after the word a run of ':' and white space, a '$', a digit, a run of at least one
\* digit, ',' or '.', and a 'K', 'M' or 'B' of either case if one follows
TvlCapture(content, word) ==
  FirstCapture([i \in Occurrences(content, word) |->
                  TvlAfter(content, i + Len(word),
                           RunLength(content, i + Len(word), {":"} \cup SpaceSet))])

extractTVL(documents) ==
  CaptureOr(FirstCapture([i \in 1..Len(documents) |->
                            OrElse(TvlCapture(ToLowerCase(documents[i].content), "tvl"),
                                   TvlCapture(ToLowerCase(documents[i].content),
                                              "total value locked"))]),
            "Unknown")

\* the group of ([$d,.]+[KMB%]?) at position b of content when gap characters of [:s] come
\* before it and it begins with run characters of [$d,.], or Null
MetricGroup(content, b, gap, run) ==
  IF gap >= 1 /\ run >= 1
    THEN Str(SubSeq(content, b,
                    b + run - 1 + IF ToLowerCase(CharOr(content, b + run))
                                       \in {"k", "m", "b", "%"}
                                    THEN 1 ELSE 0))
    ELSE Null

\* the same when the name ends at position a - 1 and gap characters of [:s] follow it
MetricAfter(content, a, gap) ==
  MetricGroup(content, a + gap, gap,
              RunLength(content, a + gap, {"$", "d", "D", ",", "."}))

\* the group captured by the first match in content of the expression that
\* new RegExp(`${name.toLowerCase()}[:\s]+([$\d,.]+[KMB%]?)`, 'i') builds, or Null.  In the
\* template literal \s stands for the letter s and \d for the letter d, so the expression is
\* <name>[:s]+([$d,.]+[KMB%]?): after the name a run of ':' and 's', then a run of '$', 'd',
\* ',' and '.', and a 'K', 'M', 'B' or '%' if one follows, letters of either case.  The names
\* passed hold no character that is special in an expression
MetricCapture(content, name) ==
  FirstCapture([i \in Occurrences(content, ToLowerCase(name)) |->
                  MetricAfter(content, i + Len(name),
                              RunLength(content, i + Len(name), {":", "s", "S"}))])

\* the first match, chunk by chunk and for each chunk name by name, or '?'
extractMetric_QuestionMark(documents, metricNames) ==
  CaptureOr(FirstCapture([i \in 1..Len(documents) |->
                            FirstCapture([k \in 1..Len(metricNames) |->
                                            MetricCapture(ToLowerCase(documents[i].content),
                                                          metricNames[k])])]),
            "?")

\* the first match, chunk by chunk and for each chunk name by name, or 'N/A'
extractMetric(documents, metricNames) ==
  CaptureOr(FirstCapture([i \in 1..Len(documents) |->
                            FirstCapture([k \in 1..Len(metricNames) |->
                                            MetricCapture(ToLowerCase(documents[i].content),
                                                          metricNames[k])])]),
            "N/A")

getProtocolDescription(documents) ==
  LET lines == [i \in 1..Len(documents) |-> SplitOn(documents[i].content, "\n")]
      Describes(line) == Includes(line, "is a") \/ Includes(line, "protocol on Worldchain")
      found == { i \in 1..Len(documents) : \E l \in 1..Len(lines[i]) : Describes(lines[i][l]) }
  IN IF found = {} THEN "No description available"
     ELSE LET i == CHOOSE j \in found : \A k \in found : j <= k
              l == CHOOSE m \in 1..Len(lines[i]) :
                     Describes(lines[i][m]) /\ \A o \in 1..(m - 1) : ~Describes(lines[i][o])
          IN lines[i][l]

\* comparisonData is the sequence of the records of the protocols, in their order
generateComparisonText(protocols, comparisonData) ==
  LET Row(cells) == Join(cells, " | ")
      n == Len(protocols)
  IN Join(<<"# Comparison: " \o Join(protocols, " vs. "), "", "## Overview", "">>
          \o [p \in 1..n |-> "**" \o comparisonData[p].name \o "**: "
                               \o comparisonData[p].description]
          \o <<"", "## Key Metrics", "">>
          \o <<"| Metric | " \o Row([p \in 1..n |-> "**" \o protocols[p] \o "**"]) \o " |",
               "| ------ | " \o Row([p \in 1..n |-> "-------"]) \o " |",
               "| Category | " \o Row([p \in 1..n |-> comparisonData[p].category]) \o " |",
               "| TVL | " \o Row([p \in 1..n |-> comparisonData[p].tvl]) \o " |",
               "| 24h Change | " \o Row([p \in 1..n |-> comparisonData[p].dailyChange]) \o " |",
               "| 24h Revenue | " \o Row([p \in 1..n |-> comparisonData[p].revenue]) \o " |",
               "| Users | " \o Row([p \in 1..n |-> comparisonData[p].userCount]) \o " |">>
          \o <<"", "## Summary", "">>
          \o <<"This comparison shows key metrics for " \o Join(protocols, " and ") \o ". ",
               "For more detailed information about each protocol, use the /stats command followed by the protocol name.">>,
          "\n")

\* the quotient n / d of two natural numbers as a JavaScript number: the fraction in lowest
\* terms, NaN for 0 / 0
RECURSIVE Gcd(_, _)
Gcd(a, b) == IF b = 0 THEN a ELSE Gcd(b, a % b)

Quotient(n, d) ==
  IF d = 0 THEN NaN
  ELSE [t |-> "quotient", n |-> n \div Gcd(n, d), d |-> d \div Gcd(n, d)]

\* the synthetic chunk, or Null
createProtocolComparisonDocument(query, documents) ==
  LET protocolsToCompare == extractProtocolsForComparison(query, documents)
      protocolDocs ==
        [p \in 1..Len(protocolsToCompare) |->
           Pick(documents, { i \in 1..Len(documents) :
                               documents[i].protocol = Str(protocolsToCompare[p]) })]
      comparisonData ==
        << >> \o [p \in 1..Len(protocolsToCompare) |->
           [name |-> protocolsToCompare[p],
            category |-> getProtocolCategory(protocolDocs[p]),
            tvl |-> extractTVL(protocolDocs[p]),
            dailyChange |-> extractMetric(protocolDocs[p],
                                          <<"1d Change", "24h Change", "Daily Change">>),
            revenue |-> extractMetric(protocolDocs[p], <<"Revenue 24h">>),
            userCount |-> extractMetric(protocolDocs[p], <<"Users", "Unique Users">>),
            description |-> getProtocolDescription(protocolDocs[p])]]
  IN IF Len(protocolsToCompare) < 2 THEN Null
     ELSE [content |-> generateComparisonText(protocolsToCompare, comparisonData),
           source |-> "protocol_comparison",
           protocol |-> Str(Join(protocolsToCompare, "_vs_")),
           category |-> Str("Comparison"),
           score |-> Quotient(1, 1),
           id |-> 0]

(***************************************************************************)
(* simple-rag.ts: answering a query                                        *)
(***************************************************************************)
worldchainKeywords ==
  <<"worldchain", "world chain", "world app", "chain 480",
    "worldid", "world id", "worldcoin", "world coin",
    "mini app", "mini-app", "miniapp", "world ecosystem">>

isWorldchainQuery(query) ==
  LET queryLower == ToLowerCase(query)
  IN \E k \in 1..Len(worldchainKeywords) :
       Includes(queryLower, ToLowerCase(worldchainKeywords[k]))

\* the first known protocol name that the query mentions, or Null
extractProtocolName(query, documents) ==
  LET protocolNames == KnownProtocolNames(documents)
      queryLower == ToLowerCase(query)
      found == { i \in 1..Len(protocolNames) :
                   Includes(queryLower, ToLowerCase(protocolNames[i])) }
  IN IF found = {} THEN Null
     ELSE Str(protocolNames[CHOOSE i \in found : \A j \in found : i <= j])

categories ==
  <<"Lending", "DEX", "Farm", "Yield", "Liquidity", "Gaming",
    "Risk", "Launchpad", "Aggregator", "DEX Aggregator">>

\* the first category that the query mentions, or Null
extractCategory(query) ==
  LET queryLower == ToLowerCase(query)
      found == { i \in 1..Len(categories) : Includes(queryLower, ToLowerCase(categories[i])) }
  IN IF found = {} THEN Null
     ELSE Str(categories[CHOOSE i \in found : \A j \in found : i <= j])

\* calculateRelevance that divides by the number of query words longer than 2 characters
calculateRelevance_LongWordsOnly(query, content) ==
  LET queryWords == SplitWs(ToLowerCase(query))
      contentLower == ToLowerCase(content)
      matchCount == Cardinality({ w \in 1..Len(queryWords) :
                                    Len(queryWords[w]) > 2 /\ Includes(contentLower, queryWords[w]) })
  IN Quotient(matchCount, Cardinality({ w \in 1..Len(queryWords) : Len(queryWords[w]) > 2 }))

calculateRelevance(query, content) ==
  LET queryWords == SplitWs(ToLowerCase(query))
      contentLower == ToLowerCase(content)
      matchCount == Cardinality({ w \in 1..Len(queryWords) :
                                    Len(queryWords[w]) > 2 /\ Includes(contentLower, queryWords[w]) })
  IN Quotient(matchCount, Len(queryWords))

\* a.score > b.score for the values (x.score || 0)
ScoresHigher(a, b) ==
  LET x == IF Truthy(a.score) THEN a.score ELSE Quotient(0, 1)
      y == IF Truthy(b.score) THEN b.score ELSE Quotient(0, 1)
  IN x.n * y.d > y.n * x.d

\* the filters of findRelevantDocuments with the category filter tried before the protocol
\* filter
Candidates_CategoryFirst(documents, query) ==
  LET category == extractCategory(query)
      protocolName == extractProtocolName(query, documents)
  IN IF isWorldchainQuery(query)
       THEN IF category # Null
              THEN { i \in 1..Len(documents) :
                       \/ documents[i].category = category
                       \/ Includes(ToLowerCase(documents[i].content),
                                   ToLowerCase(category.v)) }
            ELSE IF protocolName # Null
              THEN { i \in 1..Len(documents) :
                       \/ documents[i].protocol = protocolName
                       \/ Includes(ToLowerCase(documents[i].content),
                                   ToLowerCase(protocolName.v)) }
            ELSE { i \in 1..Len(documents) :
                     \/ Includes(documents[i].source, "worldchain")
                     \/ /\ Truthy(documents[i].protocol)
                        /\ Includes(documents[i].protocol.v, "Worldchain") }
       ELSE 1..Len(documents)

\* the positions in the store of the chunks that the filters of findRelevantDocuments keep
Candidates(documents, query) ==
  LET category == extractCategory(query)
      protocolName == extractProtocolName(query, documents)
  IN IF isWorldchainQuery(query)
       THEN IF protocolName # Null
              THEN { i \in 1..Len(documents) :
                       \/ documents[i].protocol = protocolName
                       \/ Includes(ToLowerCase(documents[i].content),
                                   ToLowerCase(protocolName.v)) }
            ELSE IF category # Null
              THEN { i \in 1..Len(documents) :
                       \/ documents[i].category = category
                       \/ Includes(ToLowerCase(documents[i].content),
                                   ToLowerCase(category.v)) }
            ELSE { i \in 1..Len(documents) :
                     \/ Includes(documents[i].source, "worldchain")
                     \/ /\ Truthy(documents[i].protocol)
                        /\ Includes(documents[i].protocol.v, "Worldchain") }
       ELSE 1..Len(documents)

\* the store once doc.score is assigned for the chunks at the positions selected
Scored(documents, query, selected) ==
  << >> \o [i \in 1..Len(documents) |->
              IF i \in selected
                THEN [documents[i] EXCEPT
                        !.score = calculateRelevance(query, documents[i].content)]
                ELSE documents[i]]

\* relevantDocuments.sort((a, b) => (b.score || 0) - (a.score || 0))
Sorted(relevantDocuments) ==
  LET order == << >> \o SortedOrder(Len(relevantDocuments),
                                    [i \in 1..Len(relevantDocuments) |->
                                       [j \in 1..Len(relevantDocuments) |->
                                          ScoresHigher(relevantDocuments[i],
                                                       relevantDocuments[j])]])
  IN << >> \o [p \in 1..Len(relevantDocuments) |-> relevantDocuments[order[p]]]

\* the body of findRelevantDocuments after the comparison branch, up to its return statement:
\* the sorted candidates and the store as the call leaves it.  Only for a query that is not
\* about Worldchain is relevantDocuments the array this.documents itself, which sort() then
\* reorders; filter() makes a new array of the same chunk objects, whose scores are assigned
\* in either case
Ranking(documents, query) ==
  LET scored == Scored(documents, query, Candidates(documents, query))
      sorted == Sorted(Pick(scored, Candidates(documents, query)))
  IN [comparisonDoc |-> Null, sorted |-> sorted,
      documents |-> IF isWorldchainQuery(query) THEN scored ELSE sorted]

\* if (comparisonDoc) return [comparisonDoc], else the ranking
ComparisonOr(comparisonDoc, documents, ranking) ==
  IF comparisonDoc # Null
    THEN [comparisonDoc |-> comparisonDoc, sorted |-> << >>, documents |-> documents]
    ELSE ranking

\* the body of findRelevantDocuments once the store is initialized, up to its return
\* statements: the synthetic chunk of a comparison query or Null, the sorted candidates, and the
\* store as the call leaves it
Ranked(documents, query) ==
  ComparisonOr(IF isComparisonQuery(query, documents)
                 THEN createProtocolComparisonDocument(query, documents) ELSE Null,
               documents, Ranking(documents, query))

\* return statements that leave out the candidates of score 0
Returned_AboveFloor(ranked, limit) ==
  IF ranked.comparisonDoc # Null
    THEN <<ranked.comparisonDoc>>
    ELSE LET kept == Pick(ranked.sorted, { i \in 1..Len(ranked.sorted) :
                                            ScoresHigher(ranked.sorted[i], [score |-> Absent]) })
         IN SubSeq(kept, 1, IF limit < Len(kept) THEN limit ELSE Len(kept))

\* the return statements: [comparisonDoc], or the first limit of the sorted candidates
Returned(ranked, limit) ==
  IF ranked.comparisonDoc # Null
    THEN <<ranked.comparisonDoc>>
    ELSE SubSeq(ranked.sorted, 1,
                IF limit < Len(ranked.sorted) THEN limit ELSE Len(ranked.sorted))

\* the chunks returned and the store as the call leaves it
findRelevantDocuments(documents, query, limit) ==
  LET ranked == Ranked(documents, query)
  IN [chunks |-> Returned(ranked, limit), documents |-> ranked.documents]

(***************************************************************************)
(* simple-rag.ts: the data directory                                       *)
(***************************************************************************)
\* what fs.readFile and JSON.parse make of a file
Json(value) == [t |-> "json", v |-> value]

\* a record of worldchain_protocols.json
WorldchainProtocol(name, category, tvl, change, revenue) ==
  [Name |-> name, Category |-> category, TVL |-> tvl, Change1d |-> change,
   Revenue24h |-> revenue, Volume24h |-> Absent, FeesVol |-> Absent]


MorphoProtocol ==
  WorldchainProtocol(Str("Morpho"), Str("Lending"), Str("$45M"), Str("+2%"), Str("$1K"))

UniswapProtocol ==
  WorldchainProtocol(Str("Uniswap"), Str("Dexes"), Str("$5M"), Str("-1%"), Absent)

\* fs.readdir(PROTOCOL_STATS_DIR) and fs.readdir(DATA_DIR)
StatsDirFiles == <<"morpho.json">>
DataDirFiles == <<"notes.md", "worldchain_protocol_stats", "worldchain_protocols.json">>

\* a data directory: what fs.stat says of each entry of DATA_DIR ("file", "dir", or "gone" when
\* it fails) and what reading gives
GoodDisk ==
  [stat |-> [f \in {"notes.md", "worldchain_protocols.json"} |-> "file"]
              @@ [f \in {"worldchain_protocol_stats"} |-> "dir"],
   read |-> [f \in {"morpho.json"} |-> Json(<<[key |-> "App Name", val |-> Str("Morpho")],
                                                [key |-> "Users", val |-> Num(1200)],
                                                [key |-> "Total TVL (USD)",
                                                 val |-> Num(5000000)]>>)]
              @@ [f \in {"notes.md"} |-> [t |-> "text", v |-> "Notes on lending markets."]]
              @@ [f \in {"worldchain_protocols.json"} |->
                    Json(<<MorphoProtocol, UniswapProtocol>>)]]

\* the data directories of the model: complete; with a record that lacks its Category; with an
\* entry that cannot be examined; with a statistics file that does not parse
Disks ==
  { GoodDisk,
    [GoodDisk EXCEPT !.read["worldchain_protocols.json"] =
       Json(<<MorphoProtocol, [UniswapProtocol EXCEPT !.Category = Absent]>>)],
    [GoodDisk EXCEPT !.stat["notes.md"] = "gone"],
    [GoodDisk EXCEPT !.read["morpho.json"] = [t |-> "malformed"]] }

\* the queries and limits of the model
Queries == {"compare Morpho and Uniswap", "morpho tvl", "worldchain lending", ""}


(***************************************************************************)
(* simple-rag.ts: state                                                    *)
(***************************************************************************)
VARIABLES
  disk,         \* the data directory
  documents,    \* this.documents
  initialized,  \* this.initialized
  loaders,      \* the calls of initialize() in progress: position, and whether a query awaits it
  loads,        \* number of calls of initialize() that went past the guard so far
  created,      \* the module openai.ts has been evaluated (the RAG system exists)
  answer        \* the outcome of a call of findRelevantDocuments that its caller has yet to take

ragVars == <<disk, documents, initialized, loaders, loads, created, answer>>

\* the callers of initialize(): the module openai.ts when it is loaded, and a call of
\* findRelevantDocuments that finds the store not initialized; the model follows one call of
\* each at a time
Loaders == {"module", "query"}

IdleLoader == [pc |-> "idle", index |-> 0, awaited |-> FALSE]

\* candidates is history: the chunks that the call ranked, as the set of their ids
NoAnswer ==
  [status |-> "none", query |-> "", limit |-> 0, chunks |-> << >>, candidates |-> {}]

\* this.documents.push(...chunks)
Push(store, chunks) ==
  store \o [i \in 1..Len(chunks) |-> [chunks[i] EXCEPT !.id = Len(store) + i]]

(***************************************************************************)
(* simple-rag.ts: initialize and findRelevantDocuments                     *)
(***************************************************************************)
\* what the calls findRelevantDocuments(query, limit) of the model do to the store and return
OutcomesOf(query, ranked) ==
  { [query |-> query, limit |-> limit, chunks |-> Returned(ranked, limit),
     candidates |-> { ranked.sorted[i].id : i \in 1..Len(ranked.sorted) },
     documents |-> ranked.documents] : limit \in 0..MaxLimit }

Outcomes(store) == UNION { OutcomesOf(query, Ranked(store, query)) : query \in Queries }

\* a call of findRelevantDocuments(query, limit) goes on after its await, or at once when the
\* store is initialized.  Nothing reads the arguments of a call before this point, and the
\* model draws them here
Respond ==
  \E outcome \in Outcomes(documents) :
    /\ documents' = outcome.documents
    /\ answer' = [status |-> "returned", query |-> outcome.query, limit |-> outcome.limit,
                  chunks |-> outcome.chunks, candidates |-> outcome.candidates]

\* no caller has an outcome to take and no call of findRelevantDocuments is about to go on
\* after its await: these continuations run before any other callback
Quiet ==
  /\ answer = NoAnswer
  /\ \A l \in Loaders : loaders[l].pc \notin {"resolved", "rejected"}

\* initialize() ends for loader l, normally (ok) or by raising "Failed to initialize RAG
\* system"; a query that awaited the call is about to go on
Finish(l, ok) ==
  /\ loaders' = [loaders EXCEPT ![l] =
                   IF loaders[l].awaited
                     THEN [@ EXCEPT !.pc = IF ok THEN "resolved" ELSE "rejected"]
                     ELSE IdleLoader]
  /\ initialized' = (initialized \/ ok)

\* the loop over the entries of DATA_DIR goes on with entry index, or ends
NextFile(l, index) ==
  IF index > Len(DataDirFiles)
    THEN Finish(l, TRUE)
    ELSE /\ loaders' = [loaders EXCEPT ![l] = [@ EXCEPT !.pc = "stat", !.index = index]]
         /\ UNCHANGED initialized

\* a call of initialize() that finds the store not initialized: up to await fs.readdir(DATA_DIR)
StartLoad(l, awaited) ==
  /\ loads < MaxLoads
  /\ ~initialized
  /\ loaders[l].pc = "idle"
  /\ loaders' = [loaders EXCEPT ![l] = [pc |-> "readdir", index |-> 0, awaited |-> awaited]]
  /\ loads' = loads + 1

\* openai.ts is loaded: createRAG, then rag.initialize().catch(...)
CreateRAG ==
  /\ ~created
  /\ created' = TRUE
  /\ StartLoad("module", FALSE)
  /\ UNCHANGED <<disk, documents, initialized, answer>>

\* a caller asks findRelevantDocuments(query, limit)
Ask ==
  /\ created
  /\ Quiet
  /\ IF initialized
       THEN /\ Respond
            /\ UNCHANGED <<loaders, loads, initialized>>
       ELSE /\ StartLoad("query", TRUE)
            /\ UNCHANGED <<documents, initialized, answer>>
  /\ UNCHANGED <<disk, created>>

\* the call of findRelevantDocuments that awaited initialize() for loader l goes on: with the
\* body of the function, or by raising the error of initialize() to its caller
Resume(l) ==
  /\ loaders[l].pc \in {"resolved", "rejected"}
  /\ loaders' = [loaders EXCEPT ![l] = IdleLoader]
  /\ IF loaders[l].pc = "resolved"
       THEN Respond
       ELSE /\ answer' = [NoAnswer EXCEPT !.status = "rejected"]
            /\ UNCHANGED documents
  /\ UNCHANGED <<disk, initialized, loads, created>>

\* fs.readdir(DATA_DIR) has resolved; the statistics directory exists, and the loader goes on
\* to read its first file
ReaddirDone(l) ==
  /\ loaders[l].pc = "readdir"
  /\ Quiet
  /\ loaders' = [loaders EXCEPT ![l] = [@ EXCEPT !.pc = "stats", !.index = 1]]
  /\ UNCHANGED <<disk, documents, initialized, loads, created, answer>>

\* fs.readFile of a statistics file has resolved or failed: the file is parsed and processed,
\* an error skips it
StatsFileDone(l) ==
  /\ loaders[l].pc = "stats"
  /\ Quiet
  /\ LET statsFile == StatsDirFiles[loaders[l].index]
     IN documents' = IF EndsWith(statsFile, ".json") /\ disk.read[statsFile].t = "json"
                       THEN Push(documents,
                                 processProtocolStats(disk.read[statsFile].v, statsFile).pushed)
                       ELSE documents
  /\ IF loaders[l].index < Len(StatsDirFiles)
       THEN /\ loaders' = [loaders EXCEPT ![l] = [@ EXCEPT !.index = @ + 1]]
            /\ UNCHANGED initialized
       ELSE NextFile(l, 1)
  /\ UNCHANGED <<disk, loads, created, answer>>

\* fs.stat of an entry of DATA_DIR has resolved or failed; a failure is raised to the outer
\* catch block, which ends initialize() with an error
StatDone(l) ==
  /\ loaders[l].pc = "stat"
  /\ Quiet
  /\ LET file == DataDirFiles[loaders[l].index]
     IN CASE disk.stat[file] = "gone" -> Finish(l, FALSE)
          [] disk.stat[file] = "dir" -> NextFile(l, loaders[l].index + 1)
          [] OTHER ->
               IF EndsWith(file, ".json") \/ EndsWith(file, ".md") \/ EndsWith(file, ".txt")
                 THEN /\ loaders' = [loaders EXCEPT ![l] = [@ EXCEPT !.pc = "read"]]
                      /\ UNCHANGED initialized
                 ELSE NextFile(l, loaders[l].index + 1)
  /\ UNCHANGED <<disk, documents, loads, created, answer>>

\* what processing the entry file of DATA_DIR pushes, given what reading it gave; an error
\* ends the processing of the file and keeps what it had pushed
Processed(file, content) ==
  IF EndsWith(file, ".json")
    THEN IF content.t = "json" /\ file = "worldchain_protocols.json"
           THEN processWorldchainProtocols(content.v).pushed
           ELSE << >>
    ELSE IF content.t = "text"
           THEN <<Chunk(content.v, file, Absent, Absent)>>
           ELSE << >>

\* fs.readFile of an entry of DATA_DIR has resolved or failed: the file is processed
ReadDone(l) ==
  /\ loaders[l].pc = "read"
  /\ Quiet
  /\ documents' = Push(documents, Processed(DataDirFiles[loaders[l].index],
                                            disk.read[DataDirFiles[loaders[l].index]]))
  /\ NextFile(l, loaders[l].index + 1)
  /\ UNCHANGED <<disk, loads, created, answer>>

\* the caller that awaited findRelevantDocuments goes on with the outcome (getContext: the
\* chunks, or the error in its catch block); it does so before any other callback runs
Deliver ==
  /\ answer # NoAnswer
  /\ answer' = NoAnswer
  /\ UNCHANGED <<disk, documents, initialized, loaders, loads, created>>

(***************************************************************************)
(* defillama.ts: the Worldchain data file                                  *)
(***************************************************************************)
VARIABLES
  dataFile,  \* the content of DEFILLAMA_DATA_PATH, or [t |-> "none"]
  update     \* the call of updateWorldchainData in progress: position, and the document formed

\* what axios.get of the chains endpoints gives: an error, or the list of chain records.  The
\* records of the model carry no tvlPrevDay and no tvlPrevWeek (both are optional)
ChainsResponses ==
  LET Ethereum == [name |-> "Ethereum", tokenSymbol |-> "ETH", tvl |-> 2000000000, chainId |-> 1]
  IN {[ok |-> FALSE, data |-> << >>], [ok |-> TRUE, data |-> << >>],
      [ok |-> TRUE, data |-> <<Ethereum>>]}
     \cup { [ok |-> TRUE,
             data |-> <<Ethereum, [name |-> "World Chain", tokenSymbol |-> tokenSymbol,
                                   tvl |-> tvl, chainId |-> 480]>>] :
              tokenSymbol \in {"WLD", ""}, tvl \in {1500000000, 2340000, 56780, 999} }

\* the Pro endpoint's list, else the free endpoint's list, else []
fetchChainsTVL(pro, fallback) ==
  IF pro.ok THEN pro.data ELSE IF fallback.ok THEN fallback.data ELSE << >>

\* the document formed from the list of chains, the chain assets response and the date of
\* the call, when the protocols, historical TVL and active users requests give nothing (the
\* lists [] and null, as they do when their endpoints fail)
formatWorldchainDataMarkdown(allChains, chainAssets, date) ==
  LET found == { i \in 1..Len(allChains) : allChains[i].chainId = 480 }
      \* getWorldchainTVL: allChains.find(chain => chain.chainId === WORLDCHAIN_ID) || null
      chainTVL == IF found = {} THEN Null
                  ELSE allChains[CHOOSE i \in found : \A j \in found : i <= j]
      \* toFixed(2) of a number of hundredths
      Fixed2(hundredths) ==
        NatToString(hundredths \div 100) \o "." \o NatToString((hundredths % 100) \div 10)
          \o NatToString(hundredths % 10)
      \* formatNumber of defillama.ts
      Format(num) ==
        IF num >= 1000000000 THEN Fixed2((num + 5000000) \div 10000000) \o "B"
        ELSE IF num >= 1000000 THEN Fixed2((num + 5000) \div 10000) \o "M"
        ELSE IF num >= 1000 THEN Fixed2((num + 5) \div 10) \o "K"
        ELSE Fixed2(num * 100)
  IN IF chainTVL = Null
       THEN "# Worldchain DeFi Data\n\nNo data available for Worldchain (ID 480) at this time."
       ELSE "# Worldchain DeFi Data (" \o date \o ")\n\n"
              \o "## Chain Overview\n"
              \o "- **Chain ID**: 480\n"
              \o "- **Chain Name**: Worldchain\n"
              \o "- **Token Symbol**: "
              \o (IF chainTVL.tokenSymbol # "" THEN chainTVL.tokenSymbol ELSE "WORLD") \o "\n"
              \o "- **Total Value Locked (TVL)**: $" \o Format(chainTVL.tvl) \o "\n"
              \o (IF chainAssets # Null
                    THEN "\n## Chain Assets\n"
                           \o "No detailed asset information available for Worldchain yet.\n"
                    ELSE "")
              \o "\n## Protocols (0)\n\n"
              \o "No protocols currently tracked on Worldchain.\n"
              \o "\n---\n\nData last updated: " \o date \o "T09:00:00.000Z"
              \o "\nSource: DefiLlama Pro API\nChain ID: 480"

\* updateWorldchainData is called and formatWorldchainDataMarkdown has returned: the requests
\* to the provider were answered as pro, fallback and chainAssets say
Formatted(pro, fallback, chainAssets, date) ==
  /\ update.pc = "idle"
  /\ update' = [pc |-> "write",
                markdown |-> formatWorldchainDataMarkdown(fetchChainsTVL(pro, fallback),
                                                          chainAssets, date)]
  /\ UNCHANGED dataFile

\* fs.writeFile has resolved, or it has failed and the catch block has logged the error
Written(ok) ==
  /\ update.pc = "write"
  /\ dataFile' = IF ok THEN [t |-> "text", v |-> update.markdown] ELSE dataFile
  /\ update' = [pc |-> "idle", markdown |-> ""]

(***************************************************************************)
(* Specifications                                                          *)
(***************************************************************************)
vars == <<protocolsCache, cacheFile, cycles, started, booted, timerArmed, lookup,
          disk, documents, initialized, loaders, loads, created, answer, dataFile, update>>

\* the entity cache, the document store at rest
Init ==
  /\ protocolsCache = ColdCache
  /\ cacheFile \in CacheFiles
  /\ cycles = [c \in Cycles |-> IdleCycle]
  /\ started = 0
  /\ booted = FALSE
  /\ timerArmed = FALSE
  /\ lookup = NoLookup
  /\ disk = GoodDisk
  /\ documents = << >>
  /\ initialized = FALSE
  /\ loaders = [l \in Loaders |-> IdleLoader]
  /\ loads = 0
  /\ created = FALSE
  /\ answer = NoAnswer
  /\ dataFile = [t |-> "none"]
  /\ update = [pc |-> "idle", markdown |-> ""]

Next ==
  \/ Initialize /\ UNCHANGED <<ragVars, dataFile, update>>
  \/ TimerFire /\ UNCHANGED <<ragVars, dataFile, update>>
  \/ \E chatType \in {"private", "group"} : ManualRefresh(chatType) /\ UNCHANGED <<ragVars, dataFile, update>>
  \/ \E c \in Cycles, list \in TrendingLists : TrendingResponse(c, list) /\ UNCHANGED <<ragVars, dataFile, update>>
  \/ \E c \in Cycles, protocolInfo \in InfoResponses : InfoResponse(c, protocolInfo) /\ UNCHANGED <<ragVars, dataFile, update>>
  \/ \E c \in Cycles : Return(c) /\ UNCHANGED <<ragVars, dataFile, update>>
  \/ \E c \in Cycles : BackoffElapsed(c) /\ UNCHANGED <<ragVars, dataFile, update>>
  \/ \E name \in LookupNames : Lookup(name) /\ UNCHANGED <<ragVars, dataFile, update>>

Spec == Init /\ [][Next]_vars

\* the refresh cycles alone, when every request to the provider is answered or fails, every
\* backoff timer fires and every continuation of a call that has returned is run
NextLive ==
  \/ Initialize /\ UNCHANGED <<ragVars, dataFile, update>>
  \/ TimerFire /\ UNCHANGED <<ragVars, dataFile, update>>
  \/ \E chatType \in {"private", "group"} : ManualRefresh(chatType) /\ UNCHANGED <<ragVars, dataFile, update>>
  \/ \E c \in Cycles, list \in TrendingLists : TrendingResponse(c, list) /\ UNCHANGED <<ragVars, dataFile, update>>
  \/ \E c \in Cycles, protocolInfo \in InfoResponses : InfoResponse(c, protocolInfo) /\ UNCHANGED <<ragVars, dataFile, update>>
  \/ \E c \in Cycles : Return(c) /\ UNCHANGED <<ragVars, dataFile, update>>
  \/ \E c \in Cycles : BackoffElapsed(c) /\ UNCHANGED <<ragVars, dataFile, update>>

SpecLive ==
  /\ Init
  /\ [][NextLive]_vars
  /\ \A c \in Cycles :
       /\ WF_vars(\E list \in TrendingLists : TrendingResponse(c, list) /\ UNCHANGED <<ragVars, dataFile, update>>)
       /\ WF_vars(\E protocolInfo \in InfoResponses :
                    InfoResponse(c, protocolInfo) /\ UNCHANGED <<ragVars, dataFile, update>>)
       /\ WF_vars(BackoffElapsed(c) /\ UNCHANGED <<ragVars, dataFile, update>>)
       /\ WF_vars(Return(c) /\ UNCHANGED <<ragVars, dataFile, update>>)

\* the document store, the entity cache at rest
InitRAG ==
  /\ disk \in Disks
  /\ documents = << >>
  /\ initialized = FALSE
  /\ loaders = [l \in Loaders |-> IdleLoader]
  /\ loads = 0
  /\ created = FALSE
  /\ answer = NoAnswer
  /\ protocolsCache = ColdCache
  /\ cacheFile = [t |-> "none"]
  /\ cycles = [c \in Cycles |-> IdleCycle]
  /\ started = 0
  /\ booted = FALSE
  /\ timerArmed = FALSE
  /\ lookup = NoLookup
  /\ dataFile = [t |-> "none"]
  /\ update = [pc |-> "idle", markdown |-> ""]

NextRAG ==
  \/ CreateRAG /\ UNCHANGED <<dmVars, dataFile, update>>
  \/ Ask /\ UNCHANGED <<dmVars, dataFile, update>>
  \/ \E l \in Loaders : Resume(l) /\ UNCHANGED <<dmVars, dataFile, update>>
  \/ \E l \in Loaders : ReaddirDone(l) /\ UNCHANGED <<dmVars, dataFile, update>>
  \/ \E l \in Loaders : StatsFileDone(l) /\ UNCHANGED <<dmVars, dataFile, update>>
  \/ \E l \in Loaders : StatDone(l) /\ UNCHANGED <<dmVars, dataFile, update>>
  \/ \E l \in Loaders : ReadDone(l) /\ UNCHANGED <<dmVars, dataFile, update>>
  \/ Deliver /\ UNCHANGED <<dmVars, dataFile, update>>

SpecRAG == InitRAG /\ [][NextRAG]_vars

\* the query router: one RAG system over the complete data directory, loaded once by
\* openai.ts, and callers that ask once the store is initialized
RouterQueries ==
  {"worldchain morpho dex", "world chain uniswap", "worldchain lending", "worldcoin dex",
   "mini app", "morpho lending", "yield farm"}

\* a caller asks findRelevantDocuments(query, limit) of the initialized store
AskRouter ==
  /\ created
  /\ Quiet
  /\ initialized
  /\ \E query \in RouterQueries :
       \E outcome \in OutcomesOf(query, Ranked(documents, query)) :
         /\ documents' = outcome.documents
         /\ answer' = [status |-> "returned", query |-> outcome.query,
                       limit |-> outcome.limit, chunks |-> outcome.chunks,
                       candidates |-> outcome.candidates]
  /\ UNCHANGED <<disk, initialized, loaders, loads, created>>

InitRouter ==
  /\ InitRAG
  /\ disk = GoodDisk

NextRouter ==
  \/ CreateRAG /\ UNCHANGED <<dmVars, dataFile, update>>
  \/ AskRouter /\ UNCHANGED <<dmVars, dataFile, update>>
  \/ ReaddirDone("module") /\ UNCHANGED <<dmVars, dataFile, update>>
  \/ StatsFileDone("module") /\ UNCHANGED <<dmVars, dataFile, update>>
  \/ StatDone("module") /\ UNCHANGED <<dmVars, dataFile, update>>
  \/ ReadDone("module") /\ UNCHANGED <<dmVars, dataFile, update>>
  \/ Deliver /\ UNCHANGED <<dmVars, dataFile, update>>

SpecRouter == InitRouter /\ [][NextRouter]_vars

\* the Worldchain data file: calls of updateWorldchainData, one at a time, on successive days;
\* the entity cache and the document store at rest
NextLlama ==
  \/ \E pro, fallback \in ChainsResponses, chainAssets \in {Null, EmptyMap},
        date \in {"2025-05-01", "2025-05-02"} :
       Formatted(pro, fallback, chainAssets, date) /\ UNCHANGED <<dmVars, ragVars>>
  \/ \E ok \in BOOLEAN : Written(ok) /\ UNCHANGED <<dmVars, ragVars>>

SpecLlama == InitRouter /\ [][NextLlama]_vars

(***************************************************************************)
(* Claims about the entity cache                                           *)
(***************************************************************************)
\* the fields of the cached entity that protocols holds under the name of its i-th entry
CachedEntity(protocols, i) == protocols[i].val

\* C1: at most one refresh cycle is in flight at any time (a timer firing or a /refresh that
\* arrives while refreshProtocolData is running, also in a backoff wait, starts no second one)
C1_SingleRefreshInFlight == Cardinality({ c \in Cycles : InFlight(c) }) <= 1

\* C3: a cycle whose every attempt got an empty list ends after MAX_RETRIES attempts by
\* returning false, with refreshSuccess false and with the entity map and the version that were
\* in place before it, so that findProtocol still finds every entity cached before
C3_EmptyListCycleFails ==
  \A c \in Cycles :
    (cycles[c].pc = "done" /\ cycles[c].emptyOnly) =>
      /\ cycles[c].attempt = MAX_RETRIES
      /\ cycles[c].result = "false"
      /\ protocolsCache.refreshSuccess = FALSE
      /\ protocolsCache.protocols = cycles[c].before.protocols
      /\ protocolsCache.version = cycles[c].before.version
      /\ \A i \in 1..Len(cycles[c].before.protocols) :
           findProtocol(protocolsCache.protocols, CachedEntity(cycles[c].before.protocols, i).name)
             = CachedEntity(cycles[c].before.protocols, i)

\* a cycle of three empty lists has ended over a cache that holds entities
C3_Witness ==
  \E c \in Cycles :
    /\ cycles[c].pc = "done" /\ cycles[c].emptyOnly /\ cycles[c].attempt = MAX_RETRIES
    /\ Len(cycles[c].before.protocols) > 0
    /\ cacheFile.t = "json" /\ cacheFile.v.refreshSuccess

\* C4: after a refresh cycle that fetched entities, every entity of the local dataset that is
\* absent from the fetch is in the cache under its normalized key, tagged source "local"
C4_FallbackMerged ==
  \A c \in Cycles :
    (cycles[c].pc = "done" /\ cycles[c].fetched # {}) =>
      \A i \in 1..Len(deFiProtocols) :
        LET normalizedName == normalizeProtocolName(Str(deFiProtocols[i].name))
        IN normalizedName \notin cycles[c].fetched =>
             /\ MapHas(protocolsCache.protocols, normalizedName)
             /\ MapGet(protocolsCache.protocols, normalizedName).source = Str("local")

\* C5: when every provider request fails or returns nothing, the refresh returns without
\* raising and afterwards findProtocol finds every entity of the local dataset
C5_ProviderDownFallsBack ==
  \A c \in Cycles :
    (cycles[c].pc = "done" /\ cycles[c].emptyOnly) =>
      /\ cycles[c].result \in {"true", "false"}
      /\ \A i \in 1..Len(deFiProtocols) :
           LET found == findProtocol(protocolsCache.protocols, Str(deFiProtocols[i].name))
           IN found # Null /\ found.name = Str(deFiProtocols[i].name)

\* C6: while a refresh is in progress the entity map that a lookup reads is the complete map
\* in place before the refresh, and once the refresh has installed its snapshot it is the
\* complete new map (all fetched and all local entities), never a partly populated one
C6_ReadersSeeWholeSnapshot ==
  \A c \in Cycles :
    /\ InFlight(c) => protocolsCache.protocols = cycles[c].before.protocols
    /\ (cycles[c].pc = "done" /\ cycles[c].result = "true") =>
         /\ cycles[c].fetched \subseteq MapKeys(protocolsCache.protocols)
         /\ \A i \in 1..Len(deFiProtocols) :
              MapHas(protocolsCache.protocols, normalizeProtocolName(Str(deFiProtocols[i].name)))

\* a lookup was answered from a cache that holds entities while a refresh had fetched part of
\* its entities
C6_Witness ==
  /\ lookup.busy
  /\ lookup.result # Null
  /\ \E c \in Cycles : cycles[c].pc = "info" /\ Len(cycles[c].freshProtocols) > 0

\* C10: every entity record that a refresh stores has a numeric tvl >= 0, whatever TVL the
\* provider supplied
C10_StoredTvlNonNegative ==
  \A c \in Cycles :
    \A i \in 1..Len(cycles[c].freshProtocols) :
      LET tvl == cycles[c].freshProtocols[i].val.tvl
      IN tvl.t = "number" /\ tvl.v >= 0

\* C11: a snapshot persisted by saveCache and loaded by initialize() at a fresh startup gives
\* the same entity map (same keys, same field values of every entity) and the same version
C11_SaveLoadRoundTrip ==
  \A snapshot \in SavedSnapshots :
    (/\ cacheFile = saveCache(snapshot, [t |-> "none"], TRUE)
     /\ cycles["init"].pc = "trending"
     /\ cycles["init"].attempt = 1)
      => /\ protocolsCache.protocols = snapshot.protocols
         /\ protocolsCache.version = snapshot.version

\* initialize() has loaded the file that holds the snapshot of two entities
C11_Witness ==
  /\ cacheFile = saveCache(SavedSnapshot, [t |-> "none"], TRUE)
  /\ cycles["init"].pc = "trending"
  /\ cycles["init"].attempt = 1
  /\ MapKeys(protocolsCache.protocols) = {"uniswap", "gamma"}
  /\ protocolsCache.version = 4

\* the four tiers of the lookup, each as a test of one cached entity p against the name asked
ExactTier(p, name) == normalizeProtocolName(p.name) = normalizeProtocolName(name)

AliasTier(p, name) ==
  \E i \in 1..Len(protocolAliases) :
    /\ Includes(Trim(ToLowerCase(name.v)), protocolAliases[i][1])
    /\ normalizeProtocolName(p.name) = normalizeProtocolName(Str(protocolAliases[i][2]))

SubstringTier(p, name) ==
  \/ Includes(ToLowerCase(p.name.v), Trim(ToLowerCase(name.v)))
  \/ Includes(Trim(ToLowerCase(name.v)), ToLowerCase(p.name.v))

WordTier(p, name) ==
  \E word \in { SplitWs(Trim(ToLowerCase(name.v)))[w] :
                  w \in 1..Len(SplitWs(Trim(ToLowerCase(name.v)))) } :
    /\ Len(word) > 2
    /\ \E q \in 1..Len(SplitWs(ToLowerCase(p.name.v))) :
         \/ Includes(SplitWs(ToLowerCase(p.name.v))[q], word)
         \/ Includes(word, SplitWs(ToLowerCase(p.name.v))[q])

\* the first tier at which p matches, 5 when it matches at none
TierOf(p, name) ==
  IF ExactTier(p, name) THEN 1
  ELSE IF AliasTier(p, name) THEN 2
  ELSE IF SubstringTier(p, name) THEN 3
  ELSE IF WordTier(p, name) THEN 4
  ELSE 5

\* the answer of the last lookup is an entity of the earliest tier at which any cached entity
\* matches, and null exactly when no cached entity matches at any tier
FirstTierWins ==
  LET values == MapValues(protocolsCache.protocols)
      tiers == { TierOf(values[i], lookup.query) : i \in 1..Len(values) }
  IN IF \A t \in tiers : t = 5
       THEN lookup.result = Null
       ELSE /\ lookup.result # Null
            /\ \E i \in 1..Len(values) : values[i] = lookup.result
            /\ \A t \in tiers : TierOf(lookup.result, lookup.query) <= t

\* C12: findProtocol(name) returns the entity of the first tier that matches (exact normalized
\* name, alias table, substring either way, word overlap with a query word longer than 2
\* characters), and null exactly when all four tiers miss
C12_FirstTierWins == lookup.query # Null => FirstTierWins

\* C12, amended: the same for a name that is not empty; for the empty name the answer is null
\* and no tier is tried
C12_FirstTierWinsNonEmptyName ==
  lookup.query # Null =>
    IF lookup.query.v = "" THEN lookup.result = Null ELSE FirstTierWins

\* the lookup returned an entity that matches by substring while an entity earlier in the cache
\* matches by word overlap only
C12_Witness ==
  /\ lookup.query # Null
  /\ lookup.result # Null
  /\ TierOf(lookup.result, lookup.query) = 3
  /\ \E i \in 1..Len(protocolsCache.protocols) :
       /\ TierOf(protocolsCache.protocols[i].val, lookup.query) = 4
       /\ protocolsCache.protocols[i].val # lookup.result

\* C14: normalizeProtocolName maps "Morpho Blue" (alias table), "MORPHO" (case folding) and
\* "morpho" to one and the same canonical key, "morpho"
C14_SameCanonicalKey ==
  lookup.query \in {Str("Morpho Blue"), Str("MORPHO"), Str("morpho")} =>
    /\ normalizeProtocolName(lookup.query) = normalizeProtocolName(Str("morpho"))
    /\ normalizeProtocolName(lookup.query) = "morpho"

\* the name "Morpho Blue" was looked up
C14_Witness ==
  /\ lookup.query = Str("Morpho Blue")
  /\ normalizeProtocolName(lookup.query) = normalizeProtocolName(Str("MORPHO"))

\* where a refresh cycle stands: at most 3 attempts, a wait of 5000 ms after the first failed
\* attempt and of 10000 ms after the second, none after the third, and a cycle that has
\* failed has made 3 attempts
CycleInBounds(cy) ==
  /\ cy.attempt \in 0..3
  /\ cy.pc \in {"trending", "info", "backoff", "done"} => cy.attempt >= 1
  /\ cy.pc = "backoff" =>
       /\ cy.attempt \in {1, 2}
       /\ cy.attempt = 1 => cy.delay = 5000
       /\ cy.attempt = 2 => cy.delay = 10000
  /\ (cy.pc = "done" /\ cy.result = "false") => cy.attempt = 3

\* how a refresh cycle moves from cy to next: the wait begins when an attempt in progress
\* fails; the attempt number changes when the cycle starts (1), when a wait is over (one
\* more, and the attempt begins) and when the call has returned; nothing follows the end of
\* the cycle but its return
CycleStep(cy, next) ==
  /\ (next.pc = "backoff" /\ cy.pc # "backoff") =>
       cy.pc \in {"trending", "info"} /\ next.attempt = cy.attempt
  /\ next.attempt # cy.attempt =>
       \/ cy.pc = "idle" /\ next.attempt = 1 /\ next.pc = "trending"
       \/ cy.pc = "backoff" /\ next.attempt = cy.attempt + 1 /\ next.pc = "trending"
       \/ cy.pc = "done" /\ next = IdleCycle
  /\ (cy.pc = "backoff" /\ next.pc # "backoff") =>
       next.pc = "trending" /\ next.attempt = cy.attempt + 1
  /\ cy.pc = "done" => next.pc \in {"done", "idle"}

\* C19: a refresh cycle makes at most 3 attempts; an attempt starts only when the cycle starts
\* or after the previous attempt failed and the wait of 5000 * 2^(attempt-1) ms is over; no
\* attempt follows the end of the cycle, and the cycle fails only when attempt 3 has failed
C19_AttemptRetryFailure ==
  /\ [](\A c \in Cycles : CycleInBounds(cycles[c]))
  /\ [][\A c \in Cycles : CycleStep(cycles[c], cycles'[c])]_vars

\* a cycle waits 10000 ms after its second failed attempt
C19_Witness ==
  \E c \in Cycles :
    /\ cycles[c].pc = "backoff"
    /\ cycles[c].attempt = 2
    /\ cycles[c].delay = 10000

\* C20: an attempt whose candidate list is not empty and in which a detail fetch failed ends
\* in success on that attempt: the call returns true, the snapshot is swapped with
\* refreshSuccess true, and there is no retry
C20_FetchFailuresDoNotFailAttempt ==
  [][\A c \in Cycles :
       (/\ cycles[c].pc = "info"
        /\ cycles'[c].pc # "info"
        /\ Len(cycles[c].freshProtocols) < cycles[c].i - 1)
         => /\ cycles'[c].pc = "done"
            /\ cycles'[c].result = "true"
            /\ cycles'[c].attempt = cycles[c].attempt
            /\ protocolsCache'.refreshSuccess
            /\ protocolsCache'.version = protocolsCache.version + 1]_vars

\* C21: after a refresh cycle, every normalized key that the cycle fetched holds the fetched
\* record (source "api"), also when the local dataset has an entity of the same key
C21_FetchedNotOverwritten ==
  \A c \in Cycles :
    cycles[c].pc = "done" =>
      \A key \in cycles[c].fetched :
        /\ MapHas(protocolsCache.protocols, key)
        /\ MapGet(protocolsCache.protocols, key).source = Str("api")

\* C26: every refresh cycle terminates: when every provider request returns or fails, a call
\* of refreshProtocolData that is in progress eventually returns true or returns false
C26_CycleTerminates ==
  \A c \in Cycles :
    InFlight(c) ~> (cycles[c].pc = "done" /\ cycles[c].result \in {"true", "false"})

\* a cycle has returned after its last attempt
C26_Witness ==
  \E c \in Cycles :
    cycles[c].pc = "done" /\ cycles[c].attempt = MAX_RETRIES /\ cycles[c].result = "false"

(***************************************************************************)
(* Claims about the document store                                         *)
(***************************************************************************)
\* C7: findRelevantDocuments(query, limit) returns at most limit chunks, for every query
\* (a comparison query also), every loaded store and every limit (0 also)
C7_AtMostLimitChunks ==
  answer.status = "returned" => Len(answer.chunks) <= answer.limit

\* the chunks of the answer were ranked, not synthesized
RankedAnswer ==
  /\ answer.status = "returned"
  /\ \A i \in 1..Len(answer.chunks) : answer.chunks[i].source # "protocol_comparison"

\* C8: the chunks returned are in descending order of score, and chunks of equal score are in
\* the order in which ingestion put them in the store, for every query of a sequence of queries
C8_DescendingStableOrder ==
  RankedAnswer =>
    \A i, j \in 1..Len(answer.chunks) :
      i < j =>
        /\ ~ScoresHigher(answer.chunks[j], answer.chunks[i])
        /\ ~ScoresHigher(answer.chunks[i], answer.chunks[j])
             => answer.chunks[i].id < answer.chunks[j].id

\* the cells of the row of the table in content that begins with the metric
Cells(content, metric) ==
  LET lines == SplitOn(content, "\n")
      label == "| " \o metric \o " | "
      rows == { i \in 1..Len(lines) :
                  Len(lines[i]) > Len(label) /\ SubSeq(lines[i], 1, Len(label)) = label }
  IN { SplitOn(SubSeq(lines[i], Len(label) + 1, Len(lines[i]) - 2), " | ") : i \in rows }

\* the cell is text of a chunk of the store that belongs to the entity
ExtractedValue(cell, entity) ==
  \E i \in 1..Len(documents) :
    /\ documents[i].protocol = Str(entity)
    /\ Includes(ToLowerCase(documents[i].content), cell)

\* the answer to a comparison query: one chunk, synthetic, of category "Comparison", with one
\* row for each of the metrics, whose cells are values or the text that stands for no value
ComparisonAnswer(noTvl, noMetric) ==
  /\ Len(answer.chunks) = 1
  /\ LET chunk == answer.chunks[1]
         entities == extractProtocolsForComparison(answer.query, documents)
         Row(metric, none) ==
           /\ Cardinality(Cells(chunk.content, metric)) = 1
           /\ \A cells \in Cells(chunk.content, metric) :
                /\ Len(cells) = Len(entities)
                /\ \A p \in 1..Len(cells) :
                     cells[p] = none \/ ExtractedValue(cells[p], entities[p])
     IN /\ chunk.source = "protocol_comparison"
        /\ chunk.category = Str("Comparison")
        /\ Row("TVL", noTvl)
        /\ Row("24h Change", noMetric)
        /\ Row("Users", noMetric)

\* the answer is to a query with a comparison keyword that names two entities of the store
ComparisonAnswered ==
  answer.status = "returned" /\ isComparisonQuery(answer.query, documents)

C13_NeverPropagatesError == answer.status # "rejected"

\* the score of a chunk is the fraction (terms of the query longer than 2 characters found in
\* the lower-cased content) / (terms of the query), a number from 0 to 1, and 0 when the query
\* has no term longer than 2 characters
ScoreIsTermFraction(chunk, query) ==
  LET terms == SplitWs(ToLowerCase(query))
      found == { w \in 1..Len(terms) :
                   Len(terms[w]) > 2 /\ Includes(ToLowerCase(chunk.content), terms[w]) }
  IN /\ chunk.score # NaN
     /\ chunk.score.t = "quotient"
     /\ chunk.score.d > 0
     /\ 0 <= chunk.score.n /\ chunk.score.n <= chunk.score.d
     /\ chunk.score.n * Len(terms) = Cardinality(found) * chunk.score.d
     /\ (\A w \in 1..Len(terms) : Len(terms[w]) <= 2) => chunk.score.n = 0

\* C15: every chunk of a ranked answer carries the score (matching terms longer than 2
\* characters) / (terms of the query), a defined number between 0 and 1, which is 0 and never
\* NaN when the query has no term longer than 2 characters (the empty query included)
C15_ScoreIsDefinedFraction ==
  RankedAnswer => \A i \in 1..Len(answer.chunks) : ScoreIsTermFraction(answer.chunks[i], answer.query)

\* the empty query was answered with chunks, each of score 0
C15_Witness ==
  /\ RankedAnswer
  /\ answer.query = ""
  /\ Len(answer.chunks) > 0
  /\ \A i \in 1..Len(answer.chunks) : answer.chunks[i].score = Quotient(0, 1)

\* C16: answering queries does not modify the store: the stored chunks are those pushed at
\* ingestion, in the order in which they were pushed
C16_StoreKeepsIngestionOrder ==
  \A i \in 1..Len(documents) : documents[i].id = i

\* the corpus as ingestion built it: the stored chunks in the order of their pushes, without
\* the scores that queries have written
Ingested ==
  [i \in 1..Len(documents) |->
     [documents[CHOOSE j \in 1..Len(documents) : documents[j].id = i] EXCEPT !.score = Absent]]

\* C17: the answer to a query is a function of the ingested corpus, the query and the limit:
\* it is the answer that the same call gives on the corpus as ingestion left it, whatever
\* queries were answered before
C17_AnswerIndependentOfHistory ==
  answer.status = "returned" =>
    answer.chunks = findRelevantDocuments(Ingested, answer.query, answer.limit).chunks

\* C18: no query is answered from the store while a call of initialize() is still appending
\* to it
C18_NoAnswerDuringLoad ==
  answer.status = "returned" =>
    \A l \in Loaders : loaders[l].pc \in {"idle", "resolved", "rejected"}

(***************************************************************************)
(* Claims about the query router                                           *)
(***************************************************************************)
\* the position in words of the first word that the query contains, letter case aside; 0 if
\* it contains none
FirstIn(words, query) ==
  LET found == { i \in 1..Len(words) : Includes(ToLowerCase(query), ToLowerCase(words[i])) }
  IN IF found = {} THEN 0 ELSE CHOOSE i \in found : \A j \in found : i <= j

\* C23: the chunks that a query ranks are chosen by the first rule that applies.  A query with
\* an ecosystem keyword ranks (a) the chunks that reference the first known entity name it
\* contains, else (b) the chunks that match the first category keyword it contains, else (c)
\* the chunks whose source or protocol references the ecosystem; a query without an ecosystem
\* keyword ranks the entire corpus, whatever names or categories it contains
C23_FirstApplicableRule ==
  answer.status = "returned" =>
    LET names == KnownProtocolNames(Ingested)
        name == FirstIn(names, answer.query)
        category == FirstIn(categories, answer.query)
    IN answer.candidates =
         { i \in 1..Len(Ingested) :
             IF FirstIn(worldchainKeywords, answer.query) = 0 THEN TRUE
             ELSE IF name # 0
               THEN \/ Ingested[i].protocol = Str(names[name])
                    \/ Includes(ToLowerCase(Ingested[i].content), ToLowerCase(names[name]))
             ELSE IF category # 0
               THEN \/ Ingested[i].category = Str(categories[category])
                    \/ Includes(ToLowerCase(Ingested[i].content),
                                ToLowerCase(categories[category]))
             ELSE \/ Includes(Ingested[i].source, "worldchain")
                  \/ /\ Truthy(Ingested[i].protocol)
                     /\ Includes(Ingested[i].protocol.v, "Worldchain") }

\* a query with an ecosystem keyword, an entity name and a category keyword was answered, and
\* it ranked some chunks of the corpus, which are not the chunks that match the category
C23_Witness ==
  /\ answer.status = "returned"
  /\ FirstIn(worldchainKeywords, answer.query) # 0
  /\ FirstIn(KnownProtocolNames(Ingested), answer.query) # 0
  /\ FirstIn(categories, answer.query) # 0
  /\ answer.candidates # {}
  /\ answer.candidates #
       { i \in 1..Len(Ingested) :
           \/ Ingested[i].category = Str(categories[FirstIn(categories, answer.query)])
           \/ Includes(ToLowerCase(Ingested[i].content),
                       ToLowerCase(categories[FirstIn(categories, answer.query)])) }

(***************************************************************************)
(* Claims about ingestion                                                  *)
(***************************************************************************)
\* a call of initialize() is at work for loader l in the given state of the loaders
Loading(ls, l) == ls[l].pc \in {"readdir", "stats", "stat", "read"}

\* C24: a failure while processing one artifact (a file that does not parse, a record that
\* lacks a field, a file or directory entry that cannot be read) never aborts ingestion: every
\* call of initialize() that ends leaves the store marked initialized
C24_IngestionNeverAborts ==
  [][\A l \in Loaders : (Loading(loaders, l) /\ ~Loading(loaders', l)) => initialized']_vars

(***************************************************************************)
(* Claims about ranking                                                    *)
(***************************************************************************)
\* C25: there is no relevance floor: a query that is ranked returns exactly min(limit, number
\* of candidate chunks) chunks, so that chunks of score 0 are returned when the candidate set
\* holds nothing better
C25_NoRelevanceFloor ==
  RankedAnswer =>
    Len(answer.chunks) = IF answer.limit < Cardinality(answer.candidates)
                           THEN answer.limit ELSE Cardinality(answer.candidates)

\* a ranked query whose candidates all scored 0 was answered with as many chunks as its limit
\* asked for
C25_Witness ==
  /\ RankedAnswer
  /\ answer.limit > 0
  /\ Len(answer.chunks) = answer.limit
  /\ \A i \in 1..Len(documents) :
       documents[i].id \in answer.candidates => documents[i].score = Quotient(0, 1)

\* a stored chunk without the fields that the store assigns to it
Emitted(chunk) == [chunk EXCEPT !.id = 0, !.score = Absent]

\* C27: each artifact contributes its chunks to the store once, however many calls of
\* initialize() overlap or follow a failed one: the store never holds a chunk twice
C27_NoDuplicateChunks ==
  \A i, j \in 1..Len(documents) :
    i # j => Emitted(documents[i]) # Emitted(documents[j])

\* C29: an artifact whose processing fails part-way is skipped as a whole: when the processing
\* of worldchain_protocols.json raises an error, none of the chunks that it emitted before the
\* error (the ranking table, the records before the failing one) is in the store
C29_FailedArtifactSkippedWhole ==
  (/\ disk.read["worldchain_protocols.json"].t = "json"
   /\ processWorldchainProtocols(disk.read["worldchain_protocols.json"].v).threw)
    => \A i \in 1..Len(documents) : documents[i].source # "worldchain_protocols.json"

(***************************************************************************)
(* Claims about the Worldchain data file                                   *)
(***************************************************************************)
NoDataDocument ==
  [t |-> "text",
   v |-> "# Worldchain DeFi Data\n\nNo data available for Worldchain (ID 480) at this time."]

\* C30: updateWorldchainData keeps the last data file when the provider is unavailable: a call
\* whose chain TVL lookup fails or finds no record of the chain leaves a data file that was
\* written before as it is, and does not replace it by the no-data document
C30_KeepsLastKnownGood ==
  [][(dataFile.t = "text" /\ dataFile # NoDataDocument) => dataFile' # NoDataDocument]_vars

====
